---- MODULE Spec2Model ----
(***************************************************************************)
(* Model of src/hooks/useCustomLocation.ts: the useLocation hook, its      *)
(* module-level singletons (cachedLocation, reverseGeocodeCache,           *)
(* pendingReverseGeocodeRequests, fetchMutex) and the asynchronous chains  *)
(* a hook instance ("session") runs.                                       *)
(*                                                                         *)
(* Execution model: JavaScript's event loop.  A macrotask (a native        *)
(* provider call settling, a timer firing, React running an effect or its  *)
(* cleanup, the application calling refresh()) runs only when the          *)
(* microtask queue microQ is empty; the promise continuations it makes     *)
(* runnable are appended to microQ and run in FIFO order.                  *)
(*                                                                         *)
(* Units: time is counted in minutes (Date.now() / 60000), coordinates in  *)
(* 1e-5 degrees (latitude * 100000), so the source's 0.0001 degrees is 10. *)
(* A null coordinate or address is the empty tuple.                        *)
(***************************************************************************)
EXTENDS Integers, Sequences, FiniteSets, TLC

\* ---------------------------------------------------------------- bounds
MaxSessions == 3
MaxFetch == 2
MaxTime == 2
MaxActive == 2
MaxIgnored == 2

\* ------------------------------------------------------ program constants
CACHE_TTL == 5
REVERSE_GEOCODE_CACHE_TTL == 10
SIGNIFICANT_CHANGE_THRESHOLD == 10
CACHE_CLEANUP_THRESHOLD == 50
PermissionError == "Unable to access your location. Check your device settings."
NoFixError == "Unable to get location. Please try again."

\* ------------------------------------------------------------ value space
Sessions == 1..MaxSessions
FetchIds == 1..MaxFetch
\* the sessions that start in the cache, geocode and view specifications
Active == 1..MaxActive
NoCoords == <<>>
NoAddress == <<>>
\* Coordinates the location provider may report: two readings that fall in
\* the same 4-decimal bucket and a third, 12e-5 degrees further north.
PointA == <<1000000, 2000000>>
PointB == <<1000004, 2000000>>
PointC == <<1000012, 2000000>>
Points == {PointA, PointB, PointC}
\* Refined readings around PointA: each axis moves by nothing, by exactly the
\* default threshold or by one unit more, in either direction.
Deltas == {0 - (SIGNIFICANT_CHANGE_THRESHOLD + 1), 0 - SIGNIFICANT_CHANGE_THRESHOLD, 0,
           SIGNIFICANT_CHANGE_THRESHOLD, SIGNIFICANT_CHANGE_THRESHOLD + 1}
RefinedPoints == { <<PointA[1] + dLat, PointA[2] + dLon>> : dLat \in Deltas, dLon \in Deltas }
NoFix == [coords |-> NoCoords, timestamp |-> 0]
NoLocation == [coords |-> NoCoords, address |-> NoAddress, timestamp |-> 0, cacheTTL |-> 0]
\* The address the geocoder resolves for a coordinate names that coordinate.
AddressOf(c) == c

Abs(x) == IF x < 0 THEN 0 - x ELSE x
\* Math.round(v * 10000) for v given in 1e-5 degrees: floor(x / 10 + 0.5)
Round4(x) == (x + 5) \div 10
createCacheKey(c) == << Round4(c[1]), Round4(c[2]) >>
Keys == { createCacheKey(p) : p \in Points \cup RefinedPoints }
NoEntry == [address |-> NoAddress, timestamp |-> 0, present |-> FALSE]
NoCall == <<>>

\* JavaScript numbers are modelled by integers.  Infinity is a number too (a
\* cacheTTL of Infinity never expires); null in the place of a number, which
\* only JSON.parse produces, has a code of its own.
Infinity == 1000000000
null == 0 - 1
Falsy(x) == x = 0 \/ x = null
\* the finite numbers a cached location can hold
Numbers == (0..(CACHE_TTL + MaxTime)) \cup { p[i] : p \in Points \cup RefinedPoints, i \in 1..2 }

\* ------------------------------------------------------- durable persistence
\* The stored item is JSON text, modelled by the sequence of its value tokens:
\* latitude, longitude, the address (one null token, or its two components),
\* timestamp, cacheTTL.  An absent item is the empty sequence.
NoItem == <<>>
\* JSON.stringify of a number: its decimal text; a non-finite number becomes null
JSONNumber(x) == IF x = Infinity \/ x = null THEN "null" ELSE ToString(x)
JSONstringify(location) ==
    << JSONNumber(location.coords[1]), JSONNumber(location.coords[2]) >>
    \o (IF location.address = NoAddress THEN << "null" >>
        ELSE << JSONNumber(location.address[1]), JSONNumber(location.address[2]) >>)
    \o << JSONNumber(location.timestamp), JSONNumber(location.cacheTTL) >>
\* JSON.parse of a number token
ParseNumber(token) == IF token = "null" THEN null ELSE CHOOSE n \in Numbers : ToString(n) = token
JSONparse(stored) ==
    LET k == Len(stored) IN
    [coords |-> << ParseNumber(stored[1]), ParseNumber(stored[2]) >>,
     address |-> IF k = 5 THEN NoAddress ELSE << ParseNumber(stored[3]), ParseNumber(stored[4]) >>,
     timestamp |-> ParseNumber(stored[k - 1]),
     cacheTTL |-> ParseNumber(stored[k])]

\* loadPersistedLocation, given the stored item: the parsed record if it
\* passes the structure validation, else null
loadPersistedLocation(stored) ==
    IF stored = NoItem THEN NoLocation
    ELSE LET parsed == JSONparse(stored) IN
         IF parsed.coords[1] # null /\ parsed.coords[2] # null /\ parsed.timestamp # null
         THEN parsed ELSE NoLocation

\* hasSignificantChange comparing with >=
hasSignificantChangeInclusive(oldCoords, newCoords, threshold) ==
    \/ Abs(newCoords[1] - oldCoords[1]) >= threshold
    \/ Abs(newCoords[2] - oldCoords[2]) >= threshold

hasSignificantChange(oldCoords, newCoords, threshold) ==
    \/ Abs(newCoords[1] - oldCoords[1]) > threshold
    \/ Abs(newCoords[2] - oldCoords[2]) > threshold

IdleFetch == [pc |-> "idle", aborted |-> FALSE,
              lk |-> "idle", lkVal |-> NoFix, np |-> "idle", npVal |-> NoFix,
              location |-> NoFix, refine |-> "idle", refined |-> NoFix]

VARIABLES
    now,                \* Date.now()
    cachedLocation,     \* module-level cachedLocation (NoLocation is null)
    cachedFixTime,      \* history: the instant the cached coordinate was obtained from the provider
    storage,            \* the AsyncStorage item "cached_location" (NoItem is absent)
    persistedRecord,    \* history: the in-memory record the stored item was written from
    hasStorage,         \* AsyncStorage !== null
    storeRejects,       \* AsyncStorage.setItem rejects (the catch of persistLocation runs)
    reverseGeocodeCache,
    pendingReverseGeocodeRequests,
    geoCalls,           \* calls of Location.reverseGeocodeAsync that have not settled
    geoWaiters,         \* then-callbacks attached to a request promise, in attachment order
    cleanupScheduled,
    cleanupTimers,      \* timers set by scheduleCacheCleanup that have not fired
    isLocked, waiters,  \* fetchMutex
    microQ,
    opts,               \* options each session is created with
    life,               \* "unborn", "mounted", "unmounted"
    coords, address, loading, error,
    isFetchingRef, hasInitialFetchRef, abortControllerRef,
    cancelled, releaseMutex, granted, initPc,
    loadPending,        \* loadPersistedLocation() of the session has not settled
    storedItem,         \* the item its AsyncStorage.getItem call reads
    fetch, numFetch,
    permCalls, positionCalls,   \* history: provider calls issued so far
    lastWriter,         \* history: the fetch whose continuation last wrote a session's visible state
    lastWrite,          \* history: outcome of the last updateLocation call or storage load
    ignoredRefresh      \* history: refresh() calls that met a fetch in flight

cacheVars == <<cachedLocation, cachedFixTime, storage, persistedRecord, hasStorage, storeRejects, storeRejects, lastWrite>>
geoVars == <<reverseGeocodeCache, pendingReverseGeocodeRequests, geoCalls, geoWaiters, cleanupScheduled, cleanupTimers>>
mutexVars == <<isLocked, waiters, granted>>
viewVars == <<coords, address, loading, error, lastWriter>>
refVars == <<isFetchingRef, hasInitialFetchRef, abortControllerRef>>
initVars == <<cancelled, releaseMutex, initPc, loadPending, storedItem>>
fetchVars == <<fetch, numFetch, permCalls, positionCalls>>
vars == <<now, cacheVars, geoVars, mutexVars, microQ, opts, ignoredRefresh, life, viewVars, refVars, initVars, fetchVars>>

isMountedRef(s) == life[s] = "mounted"
signalAborted(s, n) == fetch[s][n].aborted
\* shouldContinue without the test of the abort signal
shouldContinueIfMounted(s, n) == isMountedRef(s)
shouldContinue(s, n) == isMountedRef(s) /\ ~signalAborted(s, n)

Idle == microQ = <<>>
Task(k, s, n, kind, fix, addr) ==
    [k |-> k, s |-> s, n |-> n, kind |-> kind, fix |-> fix, addr |-> addr]
InitTask(k, s) == Task(k, s, 0, "", NoFix, NoAddress)

\* ------------------------------------------------------------ Location Cache
isCacheValid(s) ==
    /\ cachedLocation # NoLocation
    /\ LET effectiveTTL == IF ~Falsy(cachedLocation.cacheTTL)
                           THEN cachedLocation.cacheTTL ELSE opts[s].cacheTTL
       IN now - cachedLocation.timestamp < effectiveTTL

\* applyCachedLocation, for a mounted session and a non-null cache
ApplyCached(s) ==
    /\ coords' = [coords EXCEPT ![s] = cachedLocation.coords]
    /\ address' = [address EXCEPT ![s] = cachedLocation.address]
    /\ error' = [error EXCEPT ![s] = ""]
    /\ loading' = [loading EXCEPT ![s] = FALSE]
    /\ lastWriter' = [lastWriter EXCEPT ![s] = 0]

\* ---------------------------------------------------------------- FetchMutex
\* The release handle returned by acquire(): m is [isLocked, waiters, granted, microQ].
\* next() resolves the waiter's promise; its continuation runs only if the
\* waiter's Promise.race has not been settled by the cancellation promise.
ReleaseHandleLast(m) ==
    IF m.waiters = <<>>
    THEN [m EXCEPT !.isLocked = FALSE]
    ELSE LET next == m.waiters[Len(m.waiters)] IN
         [isLocked |-> TRUE,
          waiters |-> SubSeq(m.waiters, 1, Len(m.waiters) - 1),
          granted |-> [m.granted EXCEPT ![next] = TRUE],
          microQ |-> IF initPc[next] = "awaitLock"
                     THEN Append(m.microQ, InitTask("initResume", next))
                     ELSE m.microQ]

ReleaseHandle(m) ==
    IF m.waiters = <<>>
    THEN [m EXCEPT !.isLocked = FALSE]
    ELSE LET next == Head(m.waiters) IN
         [isLocked |-> TRUE,
          waiters |-> Tail(m.waiters),
          granted |-> [m.granted EXCEPT ![next] = TRUE],
          microQ |-> IF initPc[next] = "awaitLock"
                     THEN Append(m.microQ, InitTask("initResume", next))
                     ELSE m.microQ]

Mutex(q) == [isLocked |-> isLocked, waiters |-> waiters, granted |-> granted, microQ |-> q]
SetMutex(m) ==
    /\ isLocked' = m.isLocked
    /\ waiters' = m.waiters
    /\ granted' = m.granted
    /\ microQ' = m.microQ
Times(k, m) == IF k = 0 THEN m ELSE IF k = 1 THEN ReleaseHandle(m) ELSE ReleaseHandle(ReleaseHandle(m))

\* fetchMutex.acquire(), the part that runs synchronously in the caller
Acquire(s) ==
    IF ~isLocked
    THEN /\ isLocked' = TRUE
         /\ granted' = [granted EXCEPT ![s] = TRUE]
         /\ waiters' = waiters
         /\ microQ' = Append(microQ, InitTask("initResume", s))
    ELSE /\ waiters' = Append(waiters, s)
         /\ UNCHANGED <<isLocked, granted, microQ>>

\* ------------------------------------------------------------ Geocode Cache
\* reverseGeocodeAsync comparing the age of the entry with <= instead of <
reverseGeocodeAsyncLateExpiry(s, n, kind, fix, g) ==
    LET cacheKey == createCacheKey(fix.coords)
        cached == reverseGeocodeCache[cacheKey]
        me == <<s, n, kind>>
    IN  IF signalAborted(s, n)
        THEN [g EXCEPT !.microQ = Append(@, Task("geoThen", s, n, kind, fix, NoAddress))]
        ELSE IF cached.present /\ now - cached.timestamp <= REVERSE_GEOCODE_CACHE_TTL
        THEN [g EXCEPT !.microQ = Append(@, Task("geoThen", s, n, kind, fix, cached.address))]
        ELSE IF g.pending[cacheKey] # NoCall
        THEN [g EXCEPT !.waiters = Append(@, [s |-> s, n |-> n, kind |-> kind, fix |-> fix,
                                              req |-> g.pending[cacheKey]])]
        ELSE [g EXCEPT !.calls = @ \cup {[id |-> me, key |-> cacheKey, coords |-> fix.coords]},
                       !.pending = [@ EXCEPT ![cacheKey] = me],
                       !.waiters = Append(@, [s |-> s, n |-> n, kind |-> kind, fix |-> fix,
                                              req |-> me])]

\* reverseGeocodeAsync without the test of the abort signal on entry
reverseGeocodeAsyncNoAbortTest(s, n, kind, fix, g) ==
    LET cacheKey == createCacheKey(fix.coords)
        cached == reverseGeocodeCache[cacheKey]
        me == <<s, n, kind>>
    IN  IF cached.present /\ now - cached.timestamp < REVERSE_GEOCODE_CACHE_TTL
        THEN [g EXCEPT !.microQ = Append(@, Task("geoThen", s, n, kind, fix, cached.address))]
        ELSE IF g.pending[cacheKey] # NoCall
        THEN [g EXCEPT !.waiters = Append(@, [s |-> s, n |-> n, kind |-> kind, fix |-> fix,
                                              req |-> g.pending[cacheKey]])]
        ELSE [g EXCEPT !.calls = @ \cup {[id |-> me, key |-> cacheKey, coords |-> fix.coords]},
                       !.pending = [@ EXCEPT ![cacheKey] = me],
                       !.waiters = Append(@, [s |-> s, n |-> n, kind |-> kind, fix |-> fix,
                                              req |-> me])]

\* reverseGeocodeAsync without the lookup in pendingReverseGeocodeRequests
reverseGeocodeAsyncNoPending(s, n, kind, fix, g) ==
    LET cacheKey == createCacheKey(fix.coords)
        cached == reverseGeocodeCache[cacheKey]
        me == <<s, n, kind>>
    IN  IF signalAborted(s, n)
        THEN [g EXCEPT !.microQ = Append(@, Task("geoThen", s, n, kind, fix, NoAddress))]
        ELSE IF cached.present /\ now - cached.timestamp < REVERSE_GEOCODE_CACHE_TTL
        THEN [g EXCEPT !.microQ = Append(@, Task("geoThen", s, n, kind, fix, cached.address))]
        ELSE [g EXCEPT !.calls = @ \cup {[id |-> me, key |-> cacheKey, coords |-> fix.coords]},
                       !.pending = [@ EXCEPT ![cacheKey] = me],
                       !.waiters = Append(@, [s |-> s, n |-> n, kind |-> kind, fix |-> fix,
                                              req |-> me])]

\* reverseGeocodeAsync up to its first suspension, called for fetch n of
\* session s; g is [pending, calls, waiters, microQ].
reverseGeocodeAsync(s, n, kind, fix, g) ==
    LET cacheKey == createCacheKey(fix.coords)
        cached == reverseGeocodeCache[cacheKey]
        me == <<s, n, kind>>
    IN  IF signalAborted(s, n)
        THEN [g EXCEPT !.microQ = Append(@, Task("geoThen", s, n, kind, fix, NoAddress))]
        ELSE IF cached.present /\ now - cached.timestamp < REVERSE_GEOCODE_CACHE_TTL
        THEN [g EXCEPT !.microQ = Append(@, Task("geoThen", s, n, kind, fix, cached.address))]
        ELSE IF g.pending[cacheKey] # NoCall
        THEN [g EXCEPT !.waiters = Append(@, [s |-> s, n |-> n, kind |-> kind, fix |-> fix,
                                              req |-> g.pending[cacheKey]])]
        ELSE [g EXCEPT !.calls = @ \cup {[id |-> me, key |-> cacheKey, coords |-> fix.coords]},
                       !.pending = [@ EXCEPT ![cacheKey] = me],
                       !.waiters = Append(@, [s |-> s, n |-> n, kind |-> kind, fix |-> fix,
                                              req |-> me])]

Geo(q) == [pending |-> pendingReverseGeocodeRequests, calls |-> geoCalls,
           waiters |-> geoWaiters, microQ |-> q]

\* ------------------------------------------------------------- fetchLocation
\* fetchLocation from its entry to the await of the permission request,
\* when isFetchingRef is false
StartFetch(s) ==
    LET n == numFetch[s] + 1 IN
    /\ fetch' = [fetch EXCEPT ![s] =
                    [k \in FetchIds |->
                        IF k = n THEN [IdleFetch EXCEPT !.pc = "perm"]
                        ELSE IF k = abortControllerRef[s] THEN [fetch[s][k] EXCEPT !.aborted = TRUE]
                        ELSE fetch[s][k]]]
    /\ numFetch' = [numFetch EXCEPT ![s] = n]
    /\ abortControllerRef' = [abortControllerRef EXCEPT ![s] = n]
    /\ isFetchingRef' = [isFetchingRef EXCEPT ![s] = TRUE]
    /\ permCalls' = permCalls + 1
    /\ IF isMountedRef(s)
       THEN /\ loading' = [loading EXCEPT ![s] = TRUE]
            /\ error' = [error EXCEPT ![s] = ""]
            /\ lastWriter' = [lastWriter EXCEPT ![s] = n]
       ELSE UNCHANGED <<loading, error, lastWriter>>
    /\ UNCHANGED <<coords, address, positionCalls>>

\* the finally block of fetchLocation and the resolution of its promise
FinishQ(s, q) ==
    IF initPc[s] = "awaitFetch" THEN Append(q, InitTask("initAfterFetch", s)) ELSE q

\* the catch block publishing the message only
FailViewErrorOnly(s, n, msg) ==
    IF isMountedRef(s)
    THEN /\ error' = [error EXCEPT ![s] = msg]
         /\ loading' = [loading EXCEPT ![s] = FALSE]
         /\ lastWriter' = [lastWriter EXCEPT ![s] = n]
         /\ UNCHANGED <<coords, address>>
    ELSE UNCHANGED viewVars

\* the catch block of fetchLocation, signal not aborted
FailView(s, n, msg) ==
    IF isMountedRef(s)
    THEN /\ error' = [error EXCEPT ![s] = msg]
         /\ coords' = [coords EXCEPT ![s] = NoCoords]
         /\ address' = [address EXCEPT ![s] = NoAddress]
         /\ loading' = [loading EXCEPT ![s] = FALSE]
         /\ lastWriter' = [lastWriter EXCEPT ![s] = n]
    ELSE UNCHANGED viewVars

\* fetchLocation returns without touching the session (signal aborted)
FetchReturn(s, f) ==
    /\ fetch' = [fetch EXCEPT ![s][f.n] = [f.rec EXCEPT !.pc = "done"]]
    /\ isFetchingRef' = [isFetchingRef EXCEPT ![s] = FALSE]
    /\ microQ' = FinishQ(s, microQ)
    /\ UNCHANGED <<viewVars, geoVars>>

\* catch without the finally block
FetchFailKeepFlag(s, f, msg) ==
    /\ fetch' = [fetch EXCEPT ![s][f.n] = [f.rec EXCEPT !.pc = "done"]]
    /\ microQ' = FinishQ(s, microQ)
    /\ FailView(s, f.n, msg)
    /\ UNCHANGED <<geoVars, isFetchingRef>>

\* fetchLocation throws inside its try block: catch and finally
FetchFail(s, f, msg) ==
    /\ fetch' = [fetch EXCEPT ![s][f.n] = [f.rec EXCEPT !.pc = "done"]]
    /\ isFetchingRef' = [isFetchingRef EXCEPT ![s] = FALSE]
    /\ microQ' = FinishQ(s, microQ)
    /\ FailView(s, f.n, msg)
    /\ UNCHANGED geoVars

\* fetchLocation publishing a cached address together with the coordinate
GotLocationWithAddress(s, f, location) ==
    IF ~isMountedRef(s)
    THEN FetchReturn(s, f)
    ELSE LET n == f.n
             cached == reverseGeocodeCache[createCacheKey(location.coords)]
             g == reverseGeocodeAsync(s, n, "primary", location, Geo(microQ))
             refining == opts[s].enableRefinement /\ shouldContinue(s, n)
         IN /\ coords' = [coords EXCEPT ![s] = location.coords]
            /\ loading' = [loading EXCEPT ![s] = FALSE]
            /\ lastWriter' = [lastWriter EXCEPT ![s] = n]
            /\ address' = IF cached.present THEN [address EXCEPT ![s] = cached.address] ELSE address
            /\ UNCHANGED error
            /\ pendingReverseGeocodeRequests' = g.pending
            /\ geoCalls' = g.calls
            /\ geoWaiters' = g.waiters
            /\ UNCHANGED <<reverseGeocodeCache, cleanupScheduled, cleanupTimers>>
            /\ fetch' = [fetch EXCEPT ![s][n] =
                            [f.rec EXCEPT !.pc = "done", !.location = location,
                                          !.refine = IF refining THEN "pending" ELSE "idle"]]
            /\ isFetchingRef' = [isFetchingRef EXCEPT ![s] = FALSE]
            /\ microQ' = FinishQ(s, g.microQ)

\* fetchLocation after fetchLocationWithRace returned location, to its return
GotLocation(s, f, location) ==
    IF ~isMountedRef(s)
    THEN FetchReturn(s, f)
    ELSE LET n == f.n
             g == reverseGeocodeAsync(s, n, "primary", location, Geo(microQ))
             refining == opts[s].enableRefinement /\ shouldContinue(s, n)
         IN /\ coords' = [coords EXCEPT ![s] = location.coords]
            /\ loading' = [loading EXCEPT ![s] = FALSE]
            /\ lastWriter' = [lastWriter EXCEPT ![s] = n]
            /\ UNCHANGED <<address, error>>
            /\ pendingReverseGeocodeRequests' = g.pending
            /\ geoCalls' = g.calls
            /\ geoWaiters' = g.waiters
            /\ UNCHANGED <<reverseGeocodeCache, cleanupScheduled, cleanupTimers>>
            /\ fetch' = [fetch EXCEPT ![s][n] =
                            [f.rec EXCEPT !.pc = "done", !.location = location,
                                          !.refine = IF refining THEN "pending" ELSE "idle"]]
            /\ isFetchingRef' = [isFetchingRef EXCEPT ![s] = FALSE]
            /\ microQ' = FinishQ(s, g.microQ)

\* fetchLocation without its tests of signal.aborted after the permission
\* request, its catch calling setError directly
PermSettleReportsCancel(s, n, status) ==
    /\ Idle
    /\ fetch[s][n].pc = "perm"
    /\ LET f == [n |-> n, rec |-> fetch[s][n]] IN
       IF status # "granted"
       THEN /\ fetch' = [fetch EXCEPT ![s][n] = [f.rec EXCEPT !.pc = "done"]]
            /\ isFetchingRef' = [isFetchingRef EXCEPT ![s] = FALSE]
            /\ microQ' = FinishQ(s, microQ)
            /\ error' = [error EXCEPT ![s] = PermissionError]
            /\ loading' = [loading EXCEPT ![s] = FALSE]
            /\ lastWriter' = [lastWriter EXCEPT ![s] = n]
            /\ UNCHANGED <<coords, address, geoVars, positionCalls>>
       ELSE IF signalAborted(s, n)
       THEN FetchReturn(s, f) /\ UNCHANGED positionCalls
       ELSE /\ fetch' = [fetch EXCEPT ![s][n] = [@ EXCEPT !.pc = "race", !.lk = "pending", !.np = "pending"]]
            /\ positionCalls' = positionCalls + 1
            /\ UNCHANGED <<isFetchingRef, microQ, viewVars, geoVars>>
    /\ UNCHANGED <<now, cacheVars, mutexVars, opts, ignoredRefresh, life, hasInitialFetchRef, abortControllerRef,
                   initVars, numFetch, permCalls>>

\* Location.requestForegroundPermissionsAsync settles
PermSettle(s, n, status) ==
    /\ Idle
    /\ fetch[s][n].pc = "perm"
    /\ LET f == [n |-> n, rec |-> fetch[s][n]] IN
       IF signalAborted(s, n)
       THEN FetchReturn(s, f) /\ UNCHANGED positionCalls
       ELSE IF status # "granted"
       THEN FetchFail(s, f, PermissionError) /\ UNCHANGED positionCalls
       ELSE /\ fetch' = [fetch EXCEPT ![s][n] = [@ EXCEPT !.pc = "race", !.lk = "pending", !.np = "pending"]]
            /\ positionCalls' = positionCalls + 1
            /\ UNCHANGED <<isFetchingRef, microQ, viewVars, geoVars>>
    /\ UNCHANGED <<now, cacheVars, mutexVars, opts, ignoredRefresh, life, hasInitialFetchRef, abortControllerRef,
                   initVars, numFetch, permCalls>>

\* fetchLocationWithRace returning the winner of Promise.race as it is
RaceSettleNoFallback(s, n, which, val) ==
    /\ Idle
    /\ fetch[s][n].pc \in {"race", "fallback"}
    /\ IF which = "lk" THEN fetch[s][n].lk = "pending" ELSE fetch[s][n].np = "pending"
    /\ LET v == IF signalAborted(s, n) THEN NoFix ELSE val
           rec == IF which = "lk"
                  THEN [fetch[s][n] EXCEPT !.lk = "settled", !.lkVal = v]
                  ELSE [fetch[s][n] EXCEPT !.np = "settled", !.npVal = v]
           f == [n |-> n, rec |-> rec]
       IN IF signalAborted(s, n)
          THEN FetchReturn(s, f)
          ELSE IF v # NoFix
          THEN GotLocation(s, f, v)
          ELSE FetchFail(s, f, NoFixError)
    /\ UNCHANGED <<now, cacheVars, mutexVars, opts, ignoredRefresh, life, hasInitialFetchRef,
                   abortControllerRef, initVars, numFetch, permCalls, positionCalls>>

\* fetchLocationWithRace: one of the two position queries settles with val
\* (NoFix: it returned null or was rejected)
RaceSettle(s, n, which, val) ==
    /\ Idle
    /\ fetch[s][n].pc \in {"race", "fallback"}
    /\ IF which = "lk" THEN fetch[s][n].lk = "pending" ELSE fetch[s][n].np = "pending"
    /\ LET v == IF signalAborted(s, n) THEN NoFix ELSE val
           rec == IF which = "lk"
                  THEN [fetch[s][n] EXCEPT !.lk = "settled", !.lkVal = v]
                  ELSE [fetch[s][n] EXCEPT !.np = "settled", !.npVal = v]
           f == [n |-> n, rec |-> rec]
           fallback == IF rec.lkVal # NoFix THEN rec.lkVal ELSE rec.npVal
       IN IF signalAborted(s, n)
          THEN FetchReturn(s, f)
          ELSE IF fetch[s][n].pc = "race"
          THEN IF v # NoFix
               THEN GotLocation(s, f, v)
               ELSE /\ fetch' = [fetch EXCEPT ![s][n] = [rec EXCEPT !.pc = "fallback"]]
                    /\ UNCHANGED <<isFetchingRef, microQ, viewVars, geoVars>>
          ELSE IF fallback # NoFix
               THEN GotLocation(s, f, fallback)
               ELSE FetchFail(s, f, NoFixError)
    /\ UNCHANGED <<now, cacheVars, mutexVars, opts, ignoredRefresh, life, hasInitialFetchRef, abortControllerRef,
                   initVars, numFetch, permCalls, positionCalls>>

\* the refinement callback without the test of hasSignificantChange
RefineSettleAlways(s, n, val) ==
    /\ Idle
    /\ fetch[s][n].refine = "pending"
    /\ fetch' = [fetch EXCEPT ![s][n] = [@ EXCEPT !.refine = "done", !.refined = val]]
    /\ IF val # NoFix /\ shouldContinue(s, n)
       THEN LET g == reverseGeocodeAsync(s, n, "refined", val, Geo(microQ)) IN
            /\ pendingReverseGeocodeRequests' = g.pending
            /\ geoCalls' = g.calls
            /\ geoWaiters' = g.waiters
            /\ microQ' = g.microQ
       ELSE UNCHANGED <<pendingReverseGeocodeRequests, geoCalls, geoWaiters, microQ>>
    /\ UNCHANGED <<now, cacheVars, reverseGeocodeCache, cleanupScheduled, cleanupTimers, mutexVars, opts,
                   ignoredRefresh, life, viewVars, refVars, initVars, numFetch, permCalls,
                   positionCalls>>

\* the refinement query without its catch: a rejection is published as an error
RefineSettleFailing(s, n, val) ==
    /\ Idle
    /\ fetch[s][n].refine = "pending"
    /\ fetch' = [fetch EXCEPT ![s][n] = [@ EXCEPT !.refine = "done", !.refined = val]]
    /\ IF /\ val # NoFix
          /\ shouldContinue(s, n)
          /\ hasSignificantChange(fetch[s][n].location.coords, val.coords,
                                  opts[s].significantChangeThreshold)
       THEN LET g == reverseGeocodeAsync(s, n, "refined", val, Geo(microQ)) IN
            /\ pendingReverseGeocodeRequests' = g.pending
            /\ geoCalls' = g.calls
            /\ geoWaiters' = g.waiters
            /\ microQ' = g.microQ
            /\ UNCHANGED viewVars
       ELSE /\ UNCHANGED <<pendingReverseGeocodeRequests, geoCalls, geoWaiters, microQ>>
            /\ IF val = NoFix /\ isMountedRef(s)
               THEN FailView(s, n, NoFixError)
               ELSE UNCHANGED viewVars
    /\ UNCHANGED <<now, cacheVars, reverseGeocodeCache, cleanupScheduled, cleanupTimers, mutexVars, opts, ignoredRefresh, life,
                   refVars, initVars, numFetch, permCalls, positionCalls>>

\* the refinement query Location.getCurrentPositionAsync(refinedAccuracy)
\* settles (NoFix: it was rejected)
RefineSettle(s, n, val) ==
    /\ Idle
    /\ fetch[s][n].refine = "pending"
    /\ fetch' = [fetch EXCEPT ![s][n] = [@ EXCEPT !.refine = "done", !.refined = val]]
    /\ IF /\ val # NoFix
          /\ shouldContinue(s, n)
          /\ hasSignificantChange(fetch[s][n].location.coords, val.coords,
                                  opts[s].significantChangeThreshold)
       THEN LET g == reverseGeocodeAsync(s, n, "refined", val, Geo(microQ)) IN
            /\ pendingReverseGeocodeRequests' = g.pending
            /\ geoCalls' = g.calls
            /\ geoWaiters' = g.waiters
            /\ microQ' = g.microQ
       ELSE UNCHANGED <<pendingReverseGeocodeRequests, geoCalls, geoWaiters, microQ>>
    /\ UNCHANGED <<now, cacheVars, reverseGeocodeCache, cleanupScheduled, cleanupTimers, mutexVars, opts, ignoredRefresh, life,
                   viewVars, refVars, initVars, numFetch, permCalls, positionCalls>>

RECURSIVE ThenTasks(_, _)
ThenTasks(ws, addr) ==
    IF ws = <<>> THEN <<>>
    ELSE <<Task("geoThen", Head(ws).s, Head(ws).n, Head(ws).kind, Head(ws).fix, addr)>>
         \o ThenTasks(Tail(ws), addr)

\* reverseGeocodeCache.size
CacheSize(cache) == Cardinality({k \in DOMAIN cache : cache[k].present})

\* scheduleCacheCleanup without the test of cleanupScheduled
scheduleCacheCleanupNoFlag ==
    [cleanupScheduled |-> TRUE, cleanupTimers |-> cleanupTimers + 1]

\* scheduleCacheCleanup: the flag and the timers it leaves (cleanupTimeoutId
\* is null whenever the flag is false, so clearTimeout cancels nothing)
scheduleCacheCleanup ==
    IF cleanupScheduled
    THEN [cleanupScheduled |-> cleanupScheduled, cleanupTimers |-> cleanupTimers]
    ELSE [cleanupScheduled |-> TRUE, cleanupTimers |-> cleanupTimers + 1]

\* cleanReverseGeocodeCache: the cache it leaves
cleanReverseGeocodeCache(cache) ==
    IF CacheSize(cache) <= CACHE_CLEANUP_THRESHOLD
    THEN cache
    ELSE [k \in DOMAIN cache |->
            IF cache[k].present /\ now - cache[k].timestamp > REVERSE_GEOCODE_CACHE_TTL
            THEN NoEntry ELSE cache[k]]

\* the timer set by scheduleCacheCleanup fires
CleanupFire ==
    /\ Idle
    /\ cleanupTimers > 0
    /\ reverseGeocodeCache' = cleanReverseGeocodeCache(reverseGeocodeCache)
    /\ cleanupScheduled' = FALSE
    /\ cleanupTimers' = cleanupTimers - 1
    /\ UNCHANGED <<now, cacheVars, pendingReverseGeocodeRequests, geoCalls, geoWaiters, mutexVars, microQ, opts,
                   ignoredRefresh, life, viewVars, refVars, initVars, fetchVars>>

\* the request promise of reverseGeocodeAsync deleting its pending entry in
\* the try block instead of the finally block
GeoSettleKeepsPending(c, outcome) ==
    /\ Idle
    /\ c \in geoCalls
    /\ LET ownerAborted == signalAborted(c.id[1], c.id[2])
           stored == ~ownerAborted /\ outcome # "throw"
           result == IF ownerAborted \/ outcome # "address" THEN NoAddress ELSE AddressOf(c.coords)
           newCache == IF stored
                       THEN [reverseGeocodeCache EXCEPT ![c.key] =
                                [address |-> result, timestamp |-> now, present |-> TRUE]]
                       ELSE reverseGeocodeCache
       IN /\ reverseGeocodeCache' = newCache
          /\ LET timer == IF stored /\ CacheSize(newCache) > CACHE_CLEANUP_THRESHOLD
                          THEN scheduleCacheCleanup
                          ELSE [cleanupScheduled |-> cleanupScheduled, cleanupTimers |-> cleanupTimers]
             IN cleanupScheduled' = timer.cleanupScheduled /\ cleanupTimers' = timer.cleanupTimers
          /\ pendingReverseGeocodeRequests' =
                IF outcome = "throw" THEN pendingReverseGeocodeRequests
                ELSE [pendingReverseGeocodeRequests EXCEPT ![c.key] = NoCall]
          /\ geoCalls' = geoCalls \ {c}
          /\ geoWaiters' = SelectSeq(geoWaiters, LAMBDA w : w.req # c.id)
          /\ microQ' = microQ \o ThenTasks(SelectSeq(geoWaiters, LAMBDA w : w.req = c.id), result)
    /\ UNCHANGED <<now, cacheVars, mutexVars, opts, ignoredRefresh, life, viewVars, refVars, initVars, fetchVars>>

\* Location.reverseGeocodeAsync settles for the call c: the rest of the
\* request promise of reverseGeocodeAsync
GeoSettle(c, outcome) ==
    /\ Idle
    /\ c \in geoCalls
    /\ LET ownerAborted == signalAborted(c.id[1], c.id[2])
           stored == ~ownerAborted /\ outcome # "throw"
           result == IF ownerAborted \/ outcome # "address" THEN NoAddress ELSE AddressOf(c.coords)
           newCache == IF stored
                       THEN [reverseGeocodeCache EXCEPT ![c.key] =
                                [address |-> result, timestamp |-> now, present |-> TRUE]]
                       ELSE reverseGeocodeCache
       IN /\ reverseGeocodeCache' = newCache
          /\ LET timer == IF stored /\ CacheSize(newCache) > CACHE_CLEANUP_THRESHOLD
                          THEN scheduleCacheCleanup
                          ELSE [cleanupScheduled |-> cleanupScheduled, cleanupTimers |-> cleanupTimers]
             IN cleanupScheduled' = timer.cleanupScheduled /\ cleanupTimers' = timer.cleanupTimers
          /\ pendingReverseGeocodeRequests' = [pendingReverseGeocodeRequests EXCEPT ![c.key] = NoCall]
          /\ geoCalls' = geoCalls \ {c}
          /\ geoWaiters' = SelectSeq(geoWaiters, LAMBDA w : w.req # c.id)
          /\ microQ' = microQ \o ThenTasks(SelectSeq(geoWaiters, LAMBDA w : w.req = c.id), result)
    /\ UNCHANGED <<now, cacheVars, mutexVars, opts, ignoredRefresh, life, viewVars, refVars, initVars, fetchVars>>

\* persistLocation(location), location not null: the item is written unless
\* the store is absent or setItem rejects
persistLocation(location) ==
    IF hasStorage /\ ~storeRejects
    THEN storage' = JSONstringify(location) /\ persistedRecord' = location
    ELSE UNCHANGED <<storage, persistedRecord>>

\* updateLocation awaiting persistLocation and giving the write up when it fails
updateLocationAwaitingStore(s, n, location, geocodedAddress) ==
    IF ~isMountedRef(s)
    THEN UNCHANGED <<cacheVars, viewVars>>
    ELSE LET timestamp == now
             newCachedLocation == [coords |-> location.coords, address |-> geocodedAddress,
                                   timestamp |-> timestamp, cacheTTL |-> opts[s].cacheTTL]
         IN IF cachedLocation # NoLocation /\ timestamp < cachedLocation.timestamp
            THEN /\ lastWrite' = "rejected"
                 /\ UNCHANGED <<cachedLocation, cachedFixTime, storage, persistedRecord, hasStorage, storeRejects, viewVars>>
            ELSE IF hasStorage /\ storeRejects
            THEN /\ lastWrite' = "rejected"
                 /\ UNCHANGED <<cachedLocation, cachedFixTime, storage, persistedRecord, hasStorage, storeRejects, viewVars>>
            ELSE /\ coords' = [coords EXCEPT ![s] = location.coords]
                 /\ address' = [address EXCEPT ![s] = geocodedAddress]
                 /\ lastWriter' = [lastWriter EXCEPT ![s] = n]
                 /\ cachedLocation' = newCachedLocation
                 /\ cachedFixTime' = location.timestamp
                 /\ persistLocation(newCachedLocation)
                 /\ lastWrite' = "accepted"
                 /\ UNCHANGED <<loading, error, hasStorage, storeRejects>>

\* updateLocation without the comparison against the cached timestamp
updateLocationNoStaleCheck(s, n, location, geocodedAddress) ==
    IF ~isMountedRef(s)
    THEN UNCHANGED <<cacheVars, viewVars>>
    ELSE LET newCachedLocation == [coords |-> location.coords, address |-> geocodedAddress,
                                   timestamp |-> now, cacheTTL |-> opts[s].cacheTTL]
         IN /\ coords' = [coords EXCEPT ![s] = location.coords]
            /\ address' = [address EXCEPT ![s] = geocodedAddress]
            /\ lastWriter' = [lastWriter EXCEPT ![s] = n]
            /\ cachedLocation' = newCachedLocation
            /\ cachedFixTime' = location.timestamp
            /\ persistLocation(newCachedLocation)
            /\ lastWrite' = "accepted"
            /\ UNCHANGED <<loading, error, hasStorage, storeRejects>>

\* updateLocation, called from the then-callback of reverseGeocodeAsync
updateLocation(s, n, location, geocodedAddress) ==
    IF ~isMountedRef(s)
    THEN UNCHANGED <<cacheVars, viewVars>>
    ELSE LET timestamp == now
             newCachedLocation == [coords |-> location.coords, address |-> geocodedAddress,
                                   timestamp |-> timestamp, cacheTTL |-> opts[s].cacheTTL]
         IN IF cachedLocation # NoLocation /\ timestamp < cachedLocation.timestamp
            THEN /\ lastWrite' = "rejected"
                 /\ UNCHANGED <<cachedLocation, cachedFixTime, storage, persistedRecord, hasStorage, storeRejects, viewVars>>
            ELSE /\ coords' = [coords EXCEPT ![s] = location.coords]
                 /\ address' = [address EXCEPT ![s] = geocodedAddress]
                 /\ lastWriter' = [lastWriter EXCEPT ![s] = n]
                 /\ cachedLocation' = newCachedLocation
                 /\ cachedFixTime' = location.timestamp
                 /\ persistLocation(newCachedLocation)
                 /\ lastWrite' = "accepted"
                 /\ UNCHANGED <<loading, error, hasStorage, storeRejects>>

\* the then-callback treating an absent address as a failure of the fetch
GeoThenFailing ==
    /\ microQ # <<>>
    /\ Head(microQ).k = "geoThen"
    /\ LET t == Head(microQ) IN
       IF shouldContinue(t.s, t.n)
       THEN IF t.addr = NoAddress
            THEN FailView(t.s, t.n, NoFixError) /\ UNCHANGED cacheVars
            ELSE updateLocation(t.s, t.n, t.fix, t.addr)
       ELSE UNCHANGED <<cacheVars, viewVars>>
    /\ microQ' = Tail(microQ)
    /\ UNCHANGED <<now, geoVars, mutexVars, opts, ignoredRefresh, life, refVars, initVars, fetchVars>>

\* the then-callback without its test of shouldContinue(signal)
GeoThenUnguarded ==
    /\ microQ # <<>>
    /\ Head(microQ).k = "geoThen"
    /\ LET t == Head(microQ) IN updateLocation(t.s, t.n, t.fix, t.addr)
    /\ microQ' = Tail(microQ)
    /\ UNCHANGED <<now, geoVars, mutexVars, opts, ignoredRefresh, life, refVars, initVars, fetchVars>>

\* microtask: the then-callback attached to reverseGeocodeAsync in fetchLocation
GeoThen ==
    /\ microQ # <<>>
    /\ Head(microQ).k = "geoThen"
    /\ LET t == Head(microQ) IN
       IF shouldContinue(t.s, t.n)
       THEN updateLocation(t.s, t.n, t.fix, t.addr)
       ELSE UNCHANGED <<cacheVars, viewVars>>
    /\ microQ' = Tail(microQ)
    /\ UNCHANGED <<now, geoVars, mutexVars, opts, ignoredRefresh, life, refVars, initVars, fetchVars>>

\* ------------------------------------------------------- session start-up
\* the mount effect without its test of autoFetch
MountAlwaysStarts(s) ==
    /\ Idle
    /\ life[s] = "unborn"
    /\ life' = [life EXCEPT ![s] = "mounted"]
    /\ loadPending' = [loadPending EXCEPT ![s] = hasStorage]
    /\ storedItem' = [storedItem EXCEPT ![s] = storage]
    /\ IF cachedLocation # NoLocation
       THEN /\ ApplyCached(s)
            /\ hasInitialFetchRef' = [hasInitialFetchRef EXCEPT ![s] = TRUE]
       ELSE UNCHANGED <<viewVars, hasInitialFetchRef>>
    /\ IF isCacheValid(s)
       THEN UNCHANGED <<mutexVars, microQ, cancelled, releaseMutex, initPc>>
       ELSE /\ Acquire(s)
            /\ initPc' = [initPc EXCEPT ![s] = "awaitLock"]
            /\ UNCHANGED <<cancelled, releaseMutex>>
    /\ UNCHANGED <<now, cacheVars, geoVars, opts, ignoredRefresh, isFetchingRef, abortControllerRef, fetchVars>>

\* React mounts the component: both effects of useLocation up to the first
\* suspension of initializeLocation
Mount(s) ==
    /\ Idle
    /\ life[s] = "unborn"
    /\ life' = [life EXCEPT ![s] = "mounted"]
    /\ IF ~opts[s].autoFetch
       THEN UNCHANGED <<mutexVars, microQ, viewVars, hasInitialFetchRef, initVars>>
       ELSE /\ loadPending' = [loadPending EXCEPT ![s] = hasStorage]
            /\ storedItem' = [storedItem EXCEPT ![s] = storage]
            /\ IF cachedLocation # NoLocation
               THEN /\ ApplyCached(s)
                    /\ hasInitialFetchRef' = [hasInitialFetchRef EXCEPT ![s] = TRUE]
               ELSE UNCHANGED <<viewVars, hasInitialFetchRef>>
            /\ IF isCacheValid(s)
               THEN UNCHANGED <<mutexVars, microQ, cancelled, releaseMutex, initPc>>
               ELSE /\ Acquire(s)
                    /\ initPc' = [initPc EXCEPT ![s] = "awaitLock"]
                    /\ UNCHANGED <<cancelled, releaseMutex>>
    /\ UNCHANGED <<now, cacheVars, geoVars, opts, ignoredRefresh, isFetchingRef, abortControllerRef, fetchVars>>

\* the then-callback of loadPersistedLocation() without the test of cachedLocation
LoadApplyAlways(s) ==
    /\ Idle
    /\ loadPending[s]
    /\ loadPending' = [loadPending EXCEPT ![s] = FALSE]
    /\ storedItem' = [storedItem EXCEPT ![s] = NoItem]
    /\ LET persisted == loadPersistedLocation(storedItem[s]) IN
       IF persisted # NoLocation
       THEN /\ cachedLocation' = persisted
            /\ cachedFixTime' = 0
            /\ lastWrite' = IF cachedLocation # NoLocation /\ persisted # cachedLocation
                            THEN "kept" ELSE "loaded"
       ELSE UNCHANGED <<cachedLocation, cachedFixTime, lastWrite>>
    /\ UNCHANGED <<now, storage, persistedRecord, hasStorage, storeRejects, geoVars, mutexVars, microQ, opts, ignoredRefresh, life,
                   viewVars, refVars, cancelled, releaseMutex, initPc, fetchVars>>

\* the then-callback of loadPersistedLocation()
LoadApply(s) ==
    /\ Idle
    /\ loadPending[s]
    /\ loadPending' = [loadPending EXCEPT ![s] = FALSE]
    /\ storedItem' = [storedItem EXCEPT ![s] = NoItem]
    /\ LET persisted == loadPersistedLocation(storedItem[s]) IN
       IF persisted # NoLocation /\ ~(cachedLocation # NoLocation)
       THEN /\ cachedLocation' = persisted
            /\ cachedFixTime' = 0   \* its fix was obtained before this run
            /\ lastWrite' = "loaded"
       ELSE /\ lastWrite' = IF persisted # NoLocation /\ persisted # cachedLocation
                            THEN "kept" ELSE lastWrite
            /\ UNCHANGED <<cachedLocation, cachedFixTime>>
    /\ UNCHANGED <<now, storage, persistedRecord, hasStorage, storeRejects, geoVars, mutexVars, microQ, opts, ignoredRefresh, life,
                   viewVars, refVars, cancelled, releaseMutex, initPc, fetchVars>>

\* initializeLocation going on to fetchLocation() without checkAndApplyCache()
InitProceedNoRecheck(s, q) ==
    IF cancelled[s] \/ ~isMountedRef(s)
    THEN /\ SetMutex(Times(2, Mutex(q)))
         /\ initPc' = [initPc EXCEPT ![s] = "done"]
         /\ UNCHANGED <<viewVars, refVars, fetchVars>>
    ELSE /\ hasInitialFetchRef' = [hasInitialFetchRef EXCEPT ![s] = TRUE]
         /\ StartFetch(s)
         /\ initPc' = [initPc EXCEPT ![s] = "awaitFetch"]
         /\ microQ' = q
         /\ UNCHANGED mutexVars

\* initializeLocation from the polling loop's exit to the await of
\* fetchLocation(); q is the microtask queue without the running task and
\* the session holds a release handle
InitProceed(s, q) ==
    IF cancelled[s] \/ ~isMountedRef(s)
    THEN /\ SetMutex(Times(2, Mutex(q)))
         /\ initPc' = [initPc EXCEPT ![s] = "done"]
         /\ UNCHANGED <<viewVars, refVars, fetchVars>>
    ELSE IF cachedLocation # NoLocation /\ isCacheValid(s)
    THEN /\ ApplyCached(s)
         /\ hasInitialFetchRef' = [hasInitialFetchRef EXCEPT ![s] = TRUE]
         /\ SetMutex(Times(2, Mutex(q)))
         /\ initPc' = [initPc EXCEPT ![s] = "done"]
         /\ UNCHANGED <<isFetchingRef, abortControllerRef, fetchVars>>
    ELSE /\ hasInitialFetchRef' = [hasInitialFetchRef EXCEPT ![s] = TRUE]
         /\ StartFetch(s)
         /\ initPc' = [initPc EXCEPT ![s] = "awaitFetch"]
         /\ microQ' = q
         /\ UNCHANGED mutexVars

\* microtask: initializeLocation resumes after Promise.race with the handle
InitResume ==
    /\ microQ # <<>>
    /\ Head(microQ).k = "initResume"
    /\ LET s == Head(microQ).s
           q == Tail(microQ)
       IN /\ releaseMutex' = [releaseMutex EXCEPT ![s] = TRUE]
          /\ IF cancelled[s] \/ ~isMountedRef(s)
             THEN /\ SetMutex(Times(1, Mutex(q)))
                  /\ initPc' = [initPc EXCEPT ![s] = "done"]
                  /\ UNCHANGED <<viewVars, refVars, fetchVars>>
             ELSE IF ~(cachedLocation # NoLocation /\ isCacheValid(s)) /\ isFetchingRef[s]
             THEN /\ initPc' = [initPc EXCEPT ![s] = "polling"]
                  /\ microQ' = q
                  /\ UNCHANGED <<mutexVars, viewVars, refVars, fetchVars>>
             ELSE InitProceed(s, q)
    /\ UNCHANGED <<now, cacheVars, geoVars, opts, ignoredRefresh, life, cancelled, loadPending, storedItem>>

\* the cancellation promise of initializeLocation wins Promise.race: the
\* checkCancelled timer finds the session cancelled before the lock is granted
InitCancelFire(s) ==
    /\ Idle
    /\ initPc[s] = "awaitLock"
    /\ ~granted[s]
    /\ cancelled[s] \/ ~isMountedRef(s)
    /\ initPc' = [initPc EXCEPT ![s] = "done"]
    /\ UNCHANGED <<now, cacheVars, geoVars, mutexVars, microQ, opts, ignoredRefresh, life, viewVars, refVars,
                   cancelled, releaseMutex, loadPending, storedItem, fetchVars>>

\* the polling timer fires and the loop condition is false
PollWake(s) ==
    /\ Idle
    /\ initPc[s] = "polling"
    /\ ~(isFetchingRef[s] /\ ~cancelled[s] /\ isMountedRef(s))
    /\ InitProceed(s, microQ)
    /\ UNCHANGED <<now, cacheVars, geoVars, opts, ignoredRefresh, life, cancelled, releaseMutex, loadPending, storedItem>>

\* microtask: initializeLocation resumes after await fetchLocation(): finally
InitAfterFetch ==
    /\ microQ # <<>>
    /\ Head(microQ).k = "initAfterFetch"
    /\ LET s == Head(microQ).s IN
       /\ SetMutex(Times(IF releaseMutex[s] THEN 1 ELSE 0, Mutex(Tail(microQ))))
       /\ initPc' = [initPc EXCEPT ![s] = "done"]
    /\ UNCHANGED <<now, cacheVars, geoVars, opts, ignoredRefresh, life, viewVars, refVars,
                   cancelled, releaseMutex, loadPending, storedItem, fetchVars>>

\* refresh() answering from the Location Cache while its record is valid
RefreshCacheFirst(s) ==
    /\ Idle
    /\ isMountedRef(s)
    /\ ~isFetchingRef[s]
    /\ numFetch[s] < MaxFetch - (IF initPc[s] \in {"awaitLock", "polling"} THEN 1 ELSE 0)
    /\ IF isCacheValid(s)
       THEN ApplyCached(s) /\ UNCHANGED <<refVars, fetchVars>>
       ELSE StartFetch(s) /\ UNCHANGED hasInitialFetchRef
    /\ UNCHANGED <<now, cacheVars, geoVars, mutexVars, microQ, opts, ignoredRefresh, life, initVars>>

\* refresh() of a mounted session with no fetch in flight (with one in
\* flight fetchLocation returns at once and changes nothing).  refresh is
\* fetchLocation itself, which declares no parameter: an argument passed by
\* the caller, such as refresh(true), is ignored.
Refresh(s) ==
    /\ Idle
    /\ isMountedRef(s)
    /\ ~isFetchingRef[s]
    /\ numFetch[s] < MaxFetch - (IF initPc[s] \in {"awaitLock", "polling"} THEN 1 ELSE 0)
    /\ StartFetch(s)
    /\ UNCHANGED <<now, cacheVars, geoVars, mutexVars, microQ, opts, ignoredRefresh, life, hasInitialFetchRef, initVars>>

\* refresh() without the test of isFetchingRef
RefreshNoGuard(s) ==
    /\ Idle
    /\ isMountedRef(s)
    /\ isFetchingRef[s]
    /\ ignoredRefresh < MaxIgnored
    /\ numFetch[s] < MaxFetch
    /\ ignoredRefresh' = ignoredRefresh + 1
    /\ StartFetch(s)
    /\ UNCHANGED <<now, cacheVars, geoVars, mutexVars, microQ, opts, life, hasInitialFetchRef, initVars>>

\* refresh() of a mounted session with a fetch in flight: fetchLocation
\* returns at its first line
RefreshWhileFetching(s) ==
    /\ Idle
    /\ isMountedRef(s)
    /\ isFetchingRef[s]
    /\ ignoredRefresh < MaxIgnored
    /\ ignoredRefresh' = ignoredRefresh + 1
    /\ UNCHANGED <<now, cacheVars, geoVars, mutexVars, microQ, opts, life, viewVars, refVars,
                   initVars, fetchVars>>

\* React unmounts the component: the cleanups of both effects
Unmount(s) ==
    /\ Idle
    /\ isMountedRef(s)
    /\ life' = [life EXCEPT ![s] = "unmounted"]
    /\ hasInitialFetchRef' = [hasInitialFetchRef EXCEPT ![s] = FALSE]
    /\ fetch' = IF abortControllerRef[s] # 0
                THEN [fetch EXCEPT ![s][abortControllerRef[s]].aborted = TRUE]
                ELSE fetch
    /\ abortControllerRef' = [abortControllerRef EXCEPT ![s] = 0]
    /\ isFetchingRef' = [isFetchingRef EXCEPT ![s] = FALSE]
    /\ IF initPc[s] = "none"
       THEN UNCHANGED <<mutexVars, microQ, cancelled, initPc>>
       ELSE /\ cancelled' = [cancelled EXCEPT ![s] = TRUE]
            /\ initPc' = [initPc EXCEPT ![s] = IF @ = "polling" THEN "hung" ELSE @]
            /\ SetMutex(Times(IF releaseMutex[s] THEN 1 ELSE 0, Mutex(microQ)))
    /\ UNCHANGED <<now, cacheVars, geoVars, opts, ignoredRefresh, viewVars, releaseMutex, loadPending, storedItem,
                   numFetch, permCalls, positionCalls>>

Tick ==
    /\ Idle
    /\ now < MaxTime
    /\ now' = now + 1
    /\ UNCHANGED <<cacheVars, geoVars, mutexVars, microQ, opts, ignoredRefresh, life, viewVars, refVars, initVars, fetchVars>>

\* The application is closed and started again: the module-level state and
\* every hook instance are created anew; only the stored item survives.
Restart ==
    /\ Idle
    /\ \E s \in Sessions : life[s] # "unborn"
    /\ cachedLocation' = NoLocation
    /\ cachedFixTime' = 0
    /\ lastWrite' = "none"
    /\ reverseGeocodeCache' = [k \in Keys |-> NoEntry]
    /\ pendingReverseGeocodeRequests' = [k \in Keys |-> NoCall]
    /\ geoCalls' = {}
    /\ geoWaiters' = <<>>
    /\ cleanupScheduled' = FALSE
    /\ cleanupTimers' = 0
    /\ isLocked' = FALSE
    /\ waiters' = <<>>
    /\ granted' = [s \in Sessions |-> FALSE]
    /\ life' = [s \in Sessions |-> "unborn"]
    /\ coords' = [s \in Sessions |-> NoCoords]
    /\ address' = [s \in Sessions |-> NoAddress]
    /\ loading' = [s \in Sessions |-> TRUE]
    /\ error' = [s \in Sessions |-> ""]
    /\ lastWriter' = [s \in Sessions |-> 0]
    /\ isFetchingRef' = [s \in Sessions |-> FALSE]
    /\ hasInitialFetchRef' = [s \in Sessions |-> FALSE]
    /\ abortControllerRef' = [s \in Sessions |-> 0]
    /\ cancelled' = [s \in Sessions |-> FALSE]
    /\ releaseMutex' = [s \in Sessions |-> FALSE]
    /\ initPc' = [s \in Sessions |-> "none"]
    /\ loadPending' = [s \in Sessions |-> FALSE]
    /\ storedItem' = [s \in Sessions |-> NoItem]
    /\ fetch' = [s \in Sessions |-> [n \in FetchIds |-> IdleFetch]]
    /\ numFetch' = [s \in Sessions |-> 0]
    /\ permCalls' = 0
    /\ positionCalls' = 0
    /\ ignoredRefresh' = 0
    /\ UNCHANGED <<now, storage, persistedRecord, hasStorage, storeRejects, microQ, opts>>

\* ------------------------------------------------------------ specifications
TTLs == {1, CACHE_TTL}
DefaultOptions == [autoFetch |-> TRUE, enableRefinement |-> TRUE, cacheTTL |-> CACHE_TTL,
                   significantChangeThreshold |-> SIGNIFICANT_CHANGE_THRESHOLD]
FixAt(p) == [coords |-> p, timestamp |-> now]
Fixes == { FixAt(p) : p \in Points }

\* the state when the application starts with the geocode cache in caches
InitFrom(optionSets, stores, caches) ==
    /\ now = 0
    /\ cachedLocation = NoLocation
    /\ cachedFixTime = 0
    /\ persistedRecord \in stores
    /\ storage = (IF persistedRecord = NoLocation THEN NoItem ELSE JSONstringify(persistedRecord))
    /\ hasStorage = (storage # NoItem)
    /\ storeRejects = FALSE
    /\ reverseGeocodeCache \in caches
    /\ pendingReverseGeocodeRequests = [k \in Keys |-> NoCall]
    /\ geoCalls = {}
    /\ geoWaiters = <<>>
    /\ cleanupScheduled = FALSE
    /\ cleanupTimers = 0
    /\ isLocked = FALSE
    /\ waiters = <<>>
    /\ microQ = <<>>
    /\ opts \in [Sessions -> optionSets]
    /\ life = [s \in Sessions |-> "unborn"]
    /\ coords = [s \in Sessions |-> NoCoords]
    /\ address = [s \in Sessions |-> NoAddress]
    /\ loading = [s \in Sessions |-> TRUE]
    /\ error = [s \in Sessions |-> ""]
    /\ isFetchingRef = [s \in Sessions |-> FALSE]
    /\ hasInitialFetchRef = [s \in Sessions |-> FALSE]
    /\ abortControllerRef = [s \in Sessions |-> 0]
    /\ cancelled = [s \in Sessions |-> FALSE]
    /\ releaseMutex = [s \in Sessions |-> FALSE]
    /\ granted = [s \in Sessions |-> FALSE]
    /\ initPc = [s \in Sessions |-> "none"]
    /\ loadPending = [s \in Sessions |-> FALSE]
    /\ storedItem = [s \in Sessions |-> NoItem]
    /\ fetch = [s \in Sessions |-> [n \in FetchIds |-> IdleFetch]]
    /\ numFetch = [s \in Sessions |-> 0]
    /\ permCalls = 0
    /\ positionCalls = 0
    /\ lastWriter = [s \in Sessions |-> 0]
    /\ lastWrite = "none"
    /\ ignoredRefresh = 0

InitWith(optionSets, stores) == InitFrom(optionSets, stores, {[k \in Keys |-> NoEntry]})

\* Sessions are interchangeable when their options are: they start in index order.
MountNext(s) ==
    /\ \A r \in Sessions : r < s => life[r] # "unborn"
    /\ Mount(s)
Unmounted == {s \in Sessions : life[s] = "unmounted"}

\* Mutex coordination: every session auto-fetches, the provider answers at
\* once with one coordinate, sessions may be torn down or refreshed.
MutexOptions == [DefaultOptions EXCEPT !.enableRefinement = FALSE]
InitMutex == InitWith({MutexOptions}, {NoLocation})
NextMutex ==
    \/ \E s \in Sessions : MountNext(s)
    \/ \E s \in Sessions : Unmount(s)
    \/ \E s \in Sessions : Refresh(s)
    \/ InitResume
    \/ \E s \in Sessions : InitCancelFire(s)
    \/ \E s \in Sessions : PollWake(s)
    \/ InitAfterFetch
    \/ \E s \in Sessions, n \in FetchIds : PermSettle(s, n, "granted")
    \/ \E s \in Sessions, n \in FetchIds : RaceSettle(s, n, "lk", FixAt(PointA))
    \/ \E c \in geoCalls : GeoSettle(c, "address")
    \/ GeoThen
SpecMutex == InitMutex /\ [][NextMutex]_vars

\* The event loop runs every queued microtask, every timer fires and every
\* provider call settles; mounting, unmounting and refresh() are up to the
\* application.
FairMutex ==
    /\ SpecMutex
    /\ WF_vars(InitResume)
    /\ WF_vars(InitAfterFetch)
    /\ WF_vars(GeoThen)
    /\ WF_vars(\E s \in Sessions : InitCancelFire(s))
    /\ WF_vars(\E s \in Sessions : PollWake(s))
    /\ WF_vars(\E s \in Sessions, n \in FetchIds : PermSettle(s, n, "granted"))
    /\ WF_vars(\E s \in Sessions, n \in FetchIds : RaceSettle(s, n, "lk", FixAt(PointA)))
    /\ WF_vars(\E c \in geoCalls : GeoSettle(c, "address"))

\* Two sessions start together on an empty cache: both are mounted before any
\* provider call settles, permission is granted and the fresh query yields a fix.
TwoSessions == {1, 2}
AllStarted == \A s \in TwoSessions : isMountedRef(s)
InitStart == InitWith({DefaultOptions}, {NoLocation})
NextStart ==
    \/ \E s \in TwoSessions : MountNext(s)
    \/ InitResume
    \/ InitAfterFetch
    \/ \E s \in TwoSessions, n \in FetchIds : AllStarted /\ PermSettle(s, n, "granted")
    \/ \E s \in TwoSessions, n \in FetchIds, val \in {NoFix, FixAt(PointA)} :
          RaceSettle(s, n, "lk", val)
    \/ \E s \in TwoSessions, n \in FetchIds, val \in {FixAt(PointA), FixAt(PointC)} :
          RaceSettle(s, n, "np", val)
    \/ \E s \in TwoSessions, n \in FetchIds, val \in {FixAt(PointA), FixAt(PointC)} :
          RefineSettle(s, n, val)
    \/ \E c \in geoCalls : GeoSettle(c, "address")
    \/ GeoThen
SpecStart == InitStart /\ [][NextStart]_vars

\* Location Cache writes: sessions start at any time, with or without a record
\* persisted by an earlier run of the application.  Date.now() is wall-clock
\* time, so the persisted timestamp may lie ahead of this run's clock.
PersistedTimes == {0, 1}
Persisted == { [coords |-> PointB, address |-> AddressOf(PointB), timestamp |-> t, cacheTTL |-> 1] :
               t \in PersistedTimes }
InitCache == InitWith({DefaultOptions}, {NoLocation} \cup Persisted)
NextCache ==
    \/ \E s \in Active : MountNext(s)
    \/ \E s \in Active : LoadApply(s)
    \/ InitResume
    \/ InitAfterFetch
    \/ \E s \in Active, n \in FetchIds : PermSettle(s, n, "granted")
    \/ \E s \in Active, n \in FetchIds : RaceSettle(s, n, "np", FixAt(PointA))
    \/ \E s \in Active, n \in FetchIds, val \in {FixAt(PointB), FixAt(PointC)} :
          RefineSettle(s, n, val)
    \/ \E c \in geoCalls : GeoSettle(c, "address")
    \/ GeoThen
    \/ Tick
SpecCache == InitCache /\ [][NextCache]_vars

\* Geocode Cache: sessions whose fixes fall in one bucket start, are refreshed
\* and are torn down while reverse geocoding is in flight; the geocoder
\* answers with an address or with an empty list.
GeoOptions == [DefaultOptions EXCEPT !.enableRefinement = FALSE]
InitGeo == InitWith({GeoOptions}, {NoLocation})
NextGeo ==
    \/ \E s \in Active : MountNext(s)
    \/ \E s \in Active : Unmount(s)
    \/ \E s \in Active : Refresh(s)
    \/ InitResume
    \/ \E s \in Active : InitCancelFire(s)
    \/ \E s \in Active : PollWake(s)
    \/ InitAfterFetch
    \/ \E s \in Active, n \in FetchIds : PermSettle(s, n, "granted")
    \/ \E s \in Active, n \in FetchIds, val \in {FixAt(PointA), FixAt(PointB)} :
          RaceSettle(s, n, "np", val)
    \/ \E c \in geoCalls, outcome \in {"address", "empty"} : GeoSettle(c, outcome)
    \/ GeoThen
SpecGeo == InitGeo /\ [][NextGeo]_vars

\* Session-visible state: sessions start and are torn down at any point of a
\* fetch, the last one is also refreshed; permission may be refused, no last
\* known position exists and the fresh and the refinement query may fail.
InitView == InitWith({DefaultOptions}, {NoLocation})
NextView ==
    \/ \E s \in Active : MountNext(s)
    \/ \E s \in Active : Unmount(s)
    \/ Refresh(MaxActive)
    \/ InitResume
    \/ \E s \in Active : InitCancelFire(s)
    \/ \E s \in Active : PollWake(s)
    \/ InitAfterFetch
    \/ \E s \in Active, n \in FetchIds, status \in {"granted", "denied"} : PermSettle(s, n, status)
    \/ \E s \in Active, n \in FetchIds : RaceSettle(s, n, "lk", NoFix)
    \/ \E s \in Active, n \in FetchIds, val \in {NoFix, FixAt(PointB)} : RaceSettle(s, n, "np", val)
    \/ \E s \in Active, n \in FetchIds, val \in {NoFix, FixAt(PointC)} : RefineSettle(s, n, val)
    \/ \E c \in geoCalls : GeoSettle(c, "address")
    \/ GeoThen
SpecView == InitView /\ [][NextView]_vars

\* One fetch after another: a session starts and is refreshed, also while a
\* fetch is in flight; permission may be refused, either position query may
\* yield nothing, the refined fix may lie within or beyond the threshold.
InitFetch == InitWith({DefaultOptions}, {NoLocation})
NextFetch ==
    \/ Mount(1)
    \/ Refresh(1)
    \/ RefreshWhileFetching(1)
    \/ InitResume
    \/ InitAfterFetch
    \/ \E n \in FetchIds, status \in {"granted", "denied"} : PermSettle(1, n, status)
    \/ \E n \in FetchIds, val \in {NoFix, FixAt(PointA)} : RaceSettle(1, n, "lk", val)
    \/ \E n \in FetchIds, val \in {NoFix, FixAt(PointC)} : RaceSettle(1, n, "np", val)
    \/ \E n \in FetchIds, val \in {NoFix, FixAt(PointB), FixAt(PointC)} : RefineSettle(1, n, val)
    \/ \E c \in geoCalls : GeoSettle(c, "address")
    \/ GeoThen
SpecFetch == InitFetch /\ [][NextFetch]_vars

\* The same while the clock advances between the steps.
NextFetchClock == NextFetch \/ Tick
SpecFetchClock == InitFetch /\ [][NextFetchClock]_vars

\* Cache expiry: sessions configured with a TTL of one or of two minutes share
\* the Location Cache; an earlier run may have persisted a record.  A session
\* starts while the record written by another one is fresh or has expired.
ShortTTLOptions == [DefaultOptions EXCEPT !.cacheTTL = 1, !.enableRefinement = FALSE]
LongTTLOptions == [ShortTTLOptions EXCEPT !.cacheTTL = 2]
InitMixedTTL == InitWith({ShortTTLOptions, LongTTLOptions}, {NoLocation} \cup Persisted)
NextTTL ==
    \/ \E s \in Active : MountNext(s)
    \/ \E s \in Active : LoadApply(s)
    \/ InitResume
    \/ InitAfterFetch
    \/ \E s \in Active, n \in FetchIds : PermSettle(s, n, "granted")
    \/ \E s \in Active, n \in FetchIds : RaceSettle(s, n, "np", FixAt(PointA))
    \/ \E c \in geoCalls : GeoSettle(c, "address")
    \/ GeoThen
    \/ Tick
SpecMixedTTL == InitMixedTTL /\ [][NextTTL]_vars

\* Refinement: one session obtains PointA and the refinement query answers
\* with any of the readings around it.
InitRefine == InitWith({DefaultOptions}, {NoLocation})
NextRefine ==
    \/ Mount(1)
    \/ InitResume
    \/ InitAfterFetch
    \/ \E n \in FetchIds : PermSettle(1, n, "granted")
    \/ \E n \in FetchIds : RaceSettle(1, n, "np", FixAt(PointA))
    \/ \E n \in FetchIds, p \in RefinedPoints : RefineSettle(1, n, FixAt(p))
    \/ \E c \in geoCalls : GeoSettle(c, "address")
    \/ GeoThen
SpecRefine == InitRefine /\ [][NextRefine]_vars

\* Warm start: an earlier run left a record in the store; a session, whose
\* cache may be configured never to expire, fetches and writes the cache, the
\* application is closed and started again and the stored item is loaded.
ForeverOptions == [DefaultOptions EXCEPT !.cacheTTL = Infinity, !.enableRefinement = FALSE]
InitPersist == InitWith({GeoOptions, ForeverOptions}, Persisted)
NextPersist ==
    \/ Mount(1)
    \/ LoadApply(1)
    \/ InitResume
    \/ InitAfterFetch
    \/ \E n \in FetchIds : PermSettle(1, n, "granted")
    \/ \E n \in FetchIds : RaceSettle(1, n, "np", FixAt(PointA))
    \/ \E c \in geoCalls, outcome \in {"address", "empty"} : GeoSettle(c, outcome)
    \/ GeoThen
    \/ Tick
    \/ Restart
SpecPersist == InitPersist /\ [][NextPersist]_vars

\* Address lookups that fail: a session starts and is refreshed; the geocoder
\* answers with an address, with an empty list or by throwing.
InitLookup == InitWith({DefaultOptions}, {NoLocation})
NextLookup ==
    \/ Mount(1)
    \/ Refresh(1)
    \/ InitResume
    \/ InitAfterFetch
    \/ \E n \in FetchIds : PermSettle(1, n, "granted")
    \/ \E n \in FetchIds, val \in {FixAt(PointA), FixAt(PointC)} : RaceSettle(1, n, "np", val)
    \/ \E n \in FetchIds, val \in {NoFix, FixAt(PointC)} : RefineSettle(1, n, val)
    \/ \E c \in geoCalls, outcome \in {"address", "empty", "throw"} : GeoSettle(c, outcome)
    \/ GeoThen
    \/ Tick
SpecLookup == InitLookup /\ [][NextLookup]_vars

\* Manual sessions: a session created with autoFetch disabled fetches only
\* when the application calls refresh(), the others start by themselves and
\* fill the Location Cache; the last session is refreshed, permission may be
\* refused and the record expires.
ManualOptions == [GeoOptions EXCEPT !.autoFetch = FALSE]
ShortLivedOptions == [GeoOptions EXCEPT !.cacheTTL = MaxTime]
InitManual == InitWith({ManualOptions, ShortLivedOptions}, {NoLocation})
NextManual ==
    \/ \E s \in Active : MountNext(s)
    \/ Refresh(MaxActive)
    \/ InitResume
    \/ \E s \in Active : PollWake(s)
    \/ InitAfterFetch
    \/ \E s \in Active, n \in FetchIds, status \in {"granted", "denied"} : PermSettle(s, n, status)
    \/ \E s \in Active, n \in FetchIds : RaceSettle(s, n, "np", FixAt(PointA))
    \/ \E c \in geoCalls : GeoSettle(c, "address")
    \/ GeoThen
    \/ Tick
SpecManual == InitManual /\ [][NextManual]_vars

\* reverseGeocodeAsync(coords, signal) called with the abort signal of fetch n
\* of session s when that signal is already aborted.  fetchLocation tests the
\* signal before each of its own calls, so this is a call of the function
\* only; its promise resolves in a microtask, where the then-callback of
\* fetchLocation finds shouldContinue false.
ReverseGeocodeAborted(s, n, p) ==
    /\ Idle
    /\ fetch[s][n].pc # "idle"
    /\ signalAborted(s, n)
    /\ LET g == reverseGeocodeAsync(s, n, "direct", FixAt(p), Geo(microQ)) IN
       /\ pendingReverseGeocodeRequests' = g.pending
       /\ geoCalls' = g.calls
       /\ geoWaiters' = g.waiters
       /\ microQ' = g.microQ
    /\ UNCHANGED <<now, cacheVars, reverseGeocodeCache, cleanupScheduled, cleanupTimers, mutexVars, opts, ignoredRefresh, life,
                   viewVars, refVars, initVars, fetchVars>>

\* One session that refreshes, so that the signal of its earlier fetch is
\* aborted, and a geocoder that answers or finds nothing.
InitAborted == InitWith({GeoOptions}, {NoLocation})
NextAborted ==
    \/ Mount(1)
    \/ Refresh(1)
    \/ InitResume
    \/ InitAfterFetch
    \/ \E n \in FetchIds : PermSettle(1, n, "granted")
    \/ \E n \in FetchIds, p \in {PointA, PointC} : RaceSettle(1, n, "np", FixAt(p))
    \/ \E c \in geoCalls, outcome \in {"address", "empty"} : GeoSettle(c, outcome)
    \/ GeoThen
    \/ \E n \in FetchIds, p \in {PointA, PointC} : ReverseGeocodeAborted(1, n, p)
SpecAborted == InitAborted /\ [][NextAborted]_vars

\* Date.now() after the application has been left alone for one minute less
\* than the geocode TTL; MaxClock is the latest time the clock shows.
MaxClock == REVERSE_GEOCODE_CACHE_TTL + MaxTime
Sleep ==
    /\ Idle
    /\ now + (REVERSE_GEOCODE_CACHE_TTL - 1) <= MaxClock
    /\ now' = now + (REVERSE_GEOCODE_CACHE_TTL - 1)
    /\ UNCHANGED <<cacheVars, geoVars, mutexVars, microQ, opts, ignoredRefresh, life, viewVars, refVars, initVars, fetchVars>>

\* One session whose second fetch looks a bucket up after its entry has aged
\* by less than, exactly or more than the geocode TTL.
InitGeoTTL == InitWith({GeoOptions}, {NoLocation})
NextGeoTTL ==
    \/ Mount(1)
    \/ Refresh(1)
    \/ InitResume
    \/ InitAfterFetch
    \/ \E n \in FetchIds : PermSettle(1, n, "granted")
    \/ \E n \in FetchIds : RaceSettle(1, n, "np", FixAt(PointA))
    \/ \E c \in geoCalls, outcome \in {"address", "empty"} : GeoSettle(c, outcome)
    \/ GeoThen
    \/ Tick
    \/ Sleep
SpecGeoTTL == InitGeoTTL /\ [][NextGeoTTL]_vars

\* Buckets resolved on earlier trips and never visited again, and the geocode
\* cache that holds the first count of them.
OldKeys == { <<0, i>> : i \in 1..CACHE_CLEANUP_THRESHOLD }
FilledCache(count) ==
    [k \in Keys \cup OldKeys |->
        IF k \in OldKeys /\ k[2] <= count
        THEN [address |-> AddressOf(k), timestamp |-> 0, present |-> TRUE]
        ELSE NoEntry]

\* One session that resolves up to two new buckets when the geocode cache is
\* one entry below its cleanup threshold or exactly at it.
InitCleanup ==
    InitFrom({GeoOptions}, {NoLocation},
             {FilledCache(CACHE_CLEANUP_THRESHOLD - 1), FilledCache(CACHE_CLEANUP_THRESHOLD)})
NextCleanup ==
    \/ Mount(1)
    \/ Refresh(1)
    \/ InitResume
    \/ InitAfterFetch
    \/ \E n \in FetchIds : PermSettle(1, n, "granted")
    \/ \E n \in FetchIds, p \in {PointA, PointC} : RaceSettle(1, n, "np", FixAt(p))
    \/ \E c \in geoCalls : GeoSettle(c, "address")
    \/ GeoThen
    \/ Tick
    \/ Sleep
    \/ CleanupFire
SpecCleanup == InitCleanup /\ [][NextCleanup]_vars

\* the store starts or stops rejecting writes
StoreFlips ==
    /\ Idle
    /\ hasStorage
    /\ storeRejects' = ~storeRejects
    /\ UNCHANGED <<now, cachedLocation, cachedFixTime, storage, persistedRecord, hasStorage, lastWrite, geoVars,
                   mutexVars, microQ, opts, ignoredRefresh, life, viewVars, refVars, initVars, fetchVars>>

\* One session that fetches twice when the store is absent, works or rejects
\* writes.
InitStore == InitWith({GeoOptions}, {NoLocation} \cup Persisted)
NextStore ==
    \/ Mount(1)
    \/ LoadApply(1)
    \/ Refresh(1)
    \/ InitResume
    \/ InitAfterFetch
    \/ \E n \in FetchIds : PermSettle(1, n, "granted")
    \/ \E n \in FetchIds : RaceSettle(1, n, "np", FixAt(PointA))
    \/ \E c \in geoCalls : GeoSettle(c, "address")
    \/ GeoThen
    \/ Tick
    \/ StoreFlips
SpecStore == InitStore /\ [][NextStore]_vars

\* Sessions with and without autoFetch start, with or without a record
\* persisted by an earlier run, and may refresh.
InitNoAuto == InitWith({ManualOptions, GeoOptions}, {NoLocation} \cup Persisted)
NextNoAuto ==
    \/ \E s \in Active : MountNext(s)
    \/ \E s \in Active : LoadApply(s)
    \/ \E s \in Active : Refresh(s)
    \/ InitResume
    \/ InitAfterFetch
    \/ \E s \in Active, n \in FetchIds : PermSettle(s, n, "granted")
    \/ \E s \in Active, n \in FetchIds : RaceSettle(s, n, "np", FixAt(PointA))
    \/ \E c \in geoCalls : GeoSettle(c, "address")
    \/ GeoThen
SpecNoAuto == InitNoAuto /\ [][NextNoAuto]_vars

\* ------------------------------------------------------------------ claims
\* A session holds the fetch mutex from the moment its acquire() is granted
\* until initializeLocation has finished; a torn-down session is not counted.
Holding(s) ==
    /\ granted[s]
    /\ initPc[s] \in {"awaitLock", "polling", "awaitFetch"}
    /\ isMountedRef(s)
InFetch(s) == \E n \in FetchIds : fetch[s][n].pc \in {"perm", "race", "fallback"} /\ ~fetch[s][n].aborted

\* C1: in every reachable state at most one session holds the fetch mutex
\* (is between being granted the lock and finishing its start-up critical section).
C1_AtMostOneHolder == Cardinality({s \in Sessions : Holding(s)}) <= 1

\* C3: a session that is torn down while queued on the fetch mutex never
\* receives the lock: no step grants the lock to a session that is not mounted.
C3_CancelledWaiterNeverGranted ==
    [][\A s \in Sessions : (~granted[s] /\ granted'[s]) => life'[s] = "mounted"]_vars

\* C5: at no time are two instances both inside a location fetch, whether the
\* fetch was started by mount or by refresh().
C5_OneFetchAtATime == Cardinality({s \in Sessions : InFetch(s)}) <= 1

InQueue(s) == \E i \in 1..Len(waiters) : waiters[i] = s

\* C4: if every provider call eventually settles, every session that is
\* waiting for the mutex and is not torn down eventually acquires it.
C4_WaiterEventuallyAcquires ==
    \A s \in Sessions : (InQueue(s) /\ isMountedRef(s)) ~> (granted[s] \/ ~isMountedRef(s))

\* no task of any session is pending: start-up, fetches, lookups and refinements are over
Quiescent ==
    /\ microQ = <<>>
    /\ geoCalls = {}
    /\ \A s \in Sessions : initPc[s] \in {"none", "done"}
    /\ \A s \in Sessions, n \in FetchIds :
          fetch[s][n].pc \in {"idle", "done"} /\ fetch[s][n].refine # "pending"

\* C2: when two sessions start simultaneously with an empty cache, exactly one
\* fetch's worth of provider calls occurs in total (one permission request and
\* one race of position queries) and both sessions end up with the same coordinate.
C2_OneFetchForTwoStarts ==
    /\ permCalls <= 1
    /\ positionCalls <= 1
    /\ (AllStarted /\ Quiescent) => coords[1] = coords[2]

\* C6: over every sequence of Location Cache writes (primary fixes,
\* refinements, persisted-record loads) the stored record's timestamp never
\* decreases: a write older than the stored record leaves it unchanged.
C6_TimestampNeverDecreases ==
    [][cachedLocation # NoLocation =>
          /\ cachedLocation' # NoLocation
          /\ cachedLocation'.timestamp >= cachedLocation.timestamp
          /\ (now < cachedLocation.timestamp => cachedLocation' = cachedLocation)]_vars
\* a write was attempted with a timestamp older than the stored record's and rejected
C6_Witness == lastWrite = "rejected" /\ now < cachedLocation.timestamp

\* C7: the cache is newest-fix-wins regardless of completion order: a stored
\* record is never replaced by the record of a fix obtained before the stored one.
C7_NewestFixWins ==
    [][(cachedLocation # NoLocation /\ cachedLocation' # cachedLocation)
          => cachedFixTime' >= cachedFixTime]_vars

WaiterIndex == 1..Len(geoWaiters)
CallsFor(k) == {c \in geoCalls : c.key = k}
GeoTasks == {i \in 1..Len(microQ) : microQ[i].k = "geoThen"}

\* C8: for coordinates that round to the same 4-decimal bucket at most one
\* reverse-geocoding call is outstanding at any time, and all callers that ask
\* for the bucket while it is outstanding receive the same settled result.
C8_OneCallPerBucket ==
    /\ \A k \in Keys : Cardinality(CallsFor(k)) <= 1
    /\ \A i \in WaiterIndex :
          \E c \in geoCalls : c.id = geoWaiters[i].req /\ c.key = createCacheKey(geoWaiters[i].fix.coords)
    /\ \A i, j \in GeoTasks :
          createCacheKey(microQ[i].fix.coords) = createCacheKey(microQ[j].fix.coords)
             => microQ[i].addr = microQ[j].addr
\* a second caller, with another coordinate of the bucket, shares the outstanding call
C8_Witness ==
    \E i \in WaiterIndex :
       /\ geoWaiters[i].req # <<geoWaiters[i].s, geoWaiters[i].n, geoWaiters[i].kind>>
       /\ \E c \in geoCalls : c.id = geoWaiters[i].req /\ c.coords # geoWaiters[i].fix.coords

\* C9: when the requester that started a resolution is cancelled while it is in
\* flight, the resolution on completion still stores its result in the Geocode
\* Cache and delivers it to the non-cancelled callers sharing it.
C9_CancelledOwnerStillPopulates ==
    [][\A c \in geoCalls : c \notin geoCalls' =>
          /\ reverseGeocodeCache'[c.key].present
          /\ \A i \in 1..Len(microQ') :
                (microQ'[i].k = "geoThen" /\ shouldContinue(microQ'[i].s, microQ'[i].n))
                   => microQ'[i].addr = reverseGeocodeCache'[c.key].address]_vars

View(s) == <<coords[s], address[s], loading[s], error[s]>>

\* C10: after a session is torn down, or after a newer fetch of the session has
\* superseded an older one, no result of the cancelled fetch is written to the
\* session's coordinate, address, loading or error.
C10_NoWriteAfterCancel ==
    [][\A s \in Sessions : View(s)' # View(s) =>
          /\ life[s] # "unmounted"
          /\ lastWriter'[s] # 0 => ~fetch[s][lastWriter'[s]].aborted]_vars
\* the address of a superseded fetch of a mounted session arrives
C10_Witness ==
    /\ microQ # <<>>
    /\ Head(microQ).k = "geoThen"
    /\ Head(microQ).addr # NoAddress
    /\ isMountedRef(Head(microQ).s)
    /\ signalAborted(Head(microQ).s, Head(microQ).n)

\* C11: calling refresh() any number of times while a fetch of the same session
\* is in progress is a no-op: the call changes nothing, and while the fetch is
\* in flight and the session stays mounted the session starts no other fetch
\* and the fetch is not cancelled.
C11_RefreshWhileFetchingIsNoOp ==
    [][/\ ignoredRefresh' # ignoredRefresh =>
             UNCHANGED <<permCalls, positionCalls, geoCalls, geoWaiters, microQ, fetch, numFetch,
                         abortControllerRef, isFetchingRef, coords, address, loading, error,
                         cachedLocation>>
       /\ \A s \in Sessions : (InFetch(s) /\ isMountedRef(s) /\ life'[s] = "mounted") =>
             /\ numFetch'[s] = numFetch[s]
             /\ \A n \in FetchIds : fetch'[s][n].aborted = fetch[s][n].aborted]_vars
\* refresh() was called more than once while a fetch of the session was in flight
C11_Witness ==
    /\ ignoredRefresh >= 2
    /\ \E s \in Sessions : isMountedRef(s) /\ InFetch(s)

Starts(s) == life[s] = "unborn" /\ life'[s] = "mounted"
\* the cached record is younger than the TTL session s is configured with
WithinTTL(s) == cachedLocation # NoLocation /\ now - cachedLocation.timestamp < opts[s].cacheTTL

\* C12: a session that starts while the Location Cache holds a record younger
\* than the TTL immediately shows the cached coordinate and address with
\* loading=false and no error, and performs no provider call and no mutex
\* acquisition, neither at its start nor later.
C12_ValidCacheShortCircuits ==
    /\ [][\A s \in Sessions : (Starts(s) /\ WithinTTL(s)) =>
             /\ coords'[s] = cachedLocation.coords
             /\ address'[s] = cachedLocation.address
             /\ ~loading'[s]
             /\ error'[s] = ""
             /\ initPc'[s] = "none"
             /\ UNCHANGED <<permCalls, positionCalls, geoCalls, isLocked, waiters, granted>>]_vars
    /\ [](\A s \in Sessions : initPc[s] = "none" => numFetch[s] = 0 /\ ~granted[s] /\ ~InQueue(s))

\* C13: a session's cache-validity check uses that session's own configured
\* TTL: at the start of a session the check finds the record valid, and the
\* session stops without fetching, exactly when now - record.timestamp < the
\* session's cacheTTL.
C13_ValidityUsesSessionTTL ==
    [][\A s \in Sessions :
          (Starts(s) /\ cachedLocation # NoLocation) =>
             (isCacheValid(s) <=> WithinTTL(s)) /\ (initPc'[s] = "none" <=> WithinTTL(s))]_vars

\* the permission request of fetch n of session s is refused
Denied(s, n) == fetch[s][n].pc = "perm" /\ ~fetch[s][n].aborted /\ fetch'[s][n].pc = "done"

\* C14: when the permission request is refused the session ends with the
\* permission message, coordinate and address absent and loading=false, and
\* no position query or geocoding call is issued for that attempt.
C14_PermissionDenied ==
    /\ [][\A s \in Sessions, n \in FetchIds : Denied(s, n) =>
             /\ error'[s] = PermissionError
             /\ coords'[s] = NoCoords /\ address'[s] = NoAddress /\ ~loading'[s]
             /\ fetch'[s][n].lk = "idle" /\ fetch'[s][n].np = "idle"
             /\ UNCHANGED <<positionCalls, geoCalls, geoWaiters>>]_vars
    /\ [](\A s \in Sessions :
             /\ error[s] = PermissionError =>
                   coords[s] = NoCoords /\ address[s] = NoAddress /\ ~loading[s]
             /\ \A n \in FetchIds : (fetch[s][n].pc = "done" /\ fetch[s][n].lk = "idle") =>
                   \A c \in geoCalls : <<c.id[1], c.id[2]>> # <<s, n>>)
\* permission is refused to a session that showed a coordinate from an earlier fetch
C14_Witness ==
    \E s \in Sessions :
       /\ error[s] = PermissionError
       /\ \E n \in FetchIds : n < numFetch[s] /\ fetch[s][n].location # NoFix

\* a failure of session s is published
Fails(s) == error[s] = "" /\ error'[s] # ""

\* C15: after any top-level fetch failure of a mounted, non-cancelled session
\* coordinate and address are absent, loading is false and a message is
\* published; the in-flight flag is cleared, and the fetch that a following
\* refresh() starts clears the error.
C15_FailureIsRetryable ==
    /\ [][\A s \in Sessions :
             /\ Fails(s) =>
                   /\ error'[s] \in {PermissionError, NoFixError}
                   /\ coords'[s] = NoCoords /\ address'[s] = NoAddress /\ ~loading'[s]
                   /\ ~isFetchingRef'[s]
             /\ (error[s] # "" /\ numFetch'[s] > numFetch[s]) =>
                   error'[s] = "" /\ loading'[s] /\ isFetchingRef'[s]]_vars
    /\ [](\A s \in Sessions : error[s] # "" =>
             ~isFetchingRef[s] /\ coords[s] = NoCoords /\ address[s] = NoAddress /\ ~loading[s])
\* the fetch started by refresh() after a failed fetch has succeeded
C15_Witness ==
    \E s \in Sessions, n \in FetchIds :
       /\ n < numFetch[s]
       /\ fetch[s][n].pc = "done" /\ fetch[s][n].location = NoFix
       /\ fetch[s][numFetch[s]].location # NoFix
       /\ coords[s] # NoCoords /\ error[s] = "" /\ ~loading[s]

\* fetchLocationWithRace of fetch n of session s returns, the fetch not cancelled
RaceEnds(s, n) ==
    /\ fetch[s][n].pc \in {"race", "fallback"}
    /\ ~fetch[s][n].aborted
    /\ fetch'[s][n].pc = "done"

\* C16: for every combination of outcomes and settle orders of the last-known
\* and the fresh query, without cancellation the race returns a fix whenever
\* at least one of the two yields a fix, and null (the no-fix failure) only
\* when both have settled without a fix.
C16_RaceReturnsAnyFix ==
    /\ [][\A s \in Sessions, n \in FetchIds : RaceEnds(s, n) =>
             LET r == fetch'[s][n] IN
             /\ r.location # NoFix <=> (r.lkVal # NoFix \/ r.npVal # NoFix)
             /\ r.location # NoFix => r.location \in {r.lkVal, r.npVal} /\ coords'[s] = r.location.coords
             /\ r.location = NoFix <=> error'[s] = NoFixError
             /\ r.location = NoFix => r.lk = "settled" /\ r.np = "settled"]_vars
    /\ [](\A s \in Sessions, n \in FetchIds :
             fetch[s][n].pc \in {"race", "fallback"} =>
                /\ fetch[s][n].lkVal = NoFix /\ fetch[s][n].npVal = NoFix
                /\ fetch[s][n].pc = "race" => fetch[s][n].lk = "pending" /\ fetch[s][n].np = "pending"
                /\ fetch[s][n].pc = "fallback" => "pending" \in {fetch[s][n].lk, fetch[s][n].np})
\* the first query to settle yielded nothing and the race returned the other's fix
C16_Witness ==
    \E s \in Sessions, n \in FetchIds :
       /\ fetch[s][n].pc = "done"
       /\ fetch[s][n].lk = "settled" /\ fetch[s][n].np = "settled"
       /\ fetch[s][n].location # NoFix
       /\ coords[s] = fetch[s][n].location.coords

\* fetchLocationWithRace of fetch n of session s returns a fix
Succeeds(s, n) == RaceEnds(s, n) /\ fetch'[s][n].location # NoFix
\* the then-callback of an address lookup of session s is about to run
LookupArrives(s) == microQ # <<>> /\ Head(microQ).k = "geoThen" /\ Head(microQ).s = s
LookupPending(s, n, q, ws) ==
    \/ \E i \in 1..Len(q) : q[i].k = "geoThen" /\ q[i].s = s /\ q[i].n = n /\ q[i].kind = "primary"
    \/ \E i \in 1..Len(ws) : ws[i].s = s /\ ws[i].n = n /\ ws[i].kind = "primary"

Refines(s, n) ==
    /\ fetch[s][n].refine = "pending" /\ fetch'[s][n].refine = "done"
    /\ fetch'[s][n].refined # NoFix
    /\ shouldContinue(s, n)
LatMove(f) == Abs(f.refined.coords[1] - f.location.coords[1])
LonMove(f) == Abs(f.refined.coords[2] - f.location.coords[2])
\* an address lookup for the refined fix of fetch n of session s has been started
RefinedLookup(s, n, q, ws) ==
    \/ \E i \in 1..Len(q) : q[i].k = "geoThen" /\ q[i].s = s /\ q[i].n = n /\ q[i].kind = "refined"
    \/ \E i \in 1..Len(ws) : ws[i].s = s /\ ws[i].n = n /\ ws[i].kind = "refined"

\* C18: the significant-change predicate is strict: a refined fix whose
\* latitude and longitude each differ from the primary fix by at most the
\* threshold (exactly the threshold included) is not significant; it is
\* significant as soon as either axis differs by more than the threshold.
C18_StrictThreshold ==
    [][\A s \in Sessions, n \in FetchIds : Refines(s, n) =>
          LET f == fetch'[s][n]
              threshold == opts[s].significantChangeThreshold
          IN  RefinedLookup(s, n, microQ', geoWaiters')
                 <=> (LatMove(f) > threshold \/ LonMove(f) > threshold)]_vars
\* a refined fix exactly the threshold away on both axes was not taken up
C18_Witness ==
    \E s \in Sessions, n \in FetchIds :
       /\ fetch[s][n].refine = "done" /\ fetch[s][n].refined # NoFix
       /\ LatMove(fetch[s][n]) = opts[s].significantChangeThreshold
       /\ LonMove(fetch[s][n]) = opts[s].significantChangeThreshold
       /\ ~RefinedLookup(s, n, microQ, geoWaiters)
       /\ coords[s] = fetch[s][n].location.coords

\* the refined fix of f lies within the threshold of its primary fix, without being equal to it
WithinThreshold(f, threshold) ==
    /\ f.refined # NoFix /\ f.refined.coords # f.location.coords
    /\ LatMove(f) <= threshold /\ LonMove(f) <= threshold

\* C19: a refined fix that is not a significant change from the primary fix
\* is discarded: it triggers no geocoding call and changes neither the
\* session's coordinate and address nor the Location Cache, then or later.
C19_InsignificantRefinementDiscarded ==
    /\ [][\A s \in Sessions, n \in FetchIds :
             (Refines(s, n) /\ WithinThreshold(fetch'[s][n], opts[s].significantChangeThreshold)) =>
                UNCHANGED <<geoCalls, geoWaiters, pendingReverseGeocodeRequests, reverseGeocodeCache,
                            microQ, coords, address, loading, error, cachedLocation, storage>>]_vars
    /\ [](\A s \in Sessions, n \in FetchIds :
             (fetch[s][n].refine = "done"
                /\ WithinThreshold(fetch[s][n], opts[s].significantChangeThreshold)) =>
                /\ ~RefinedLookup(s, n, microQ, geoWaiters)
                /\ \A c \in geoCalls : c.id # <<s, n, "refined">>
                /\ coords[s] # fetch[s][n].refined.coords
                /\ cachedLocation.coords # fetch[s][n].refined.coords)
\* a refined fix within the threshold arrived after the primary fix was cached
C19_Witness ==
    \E s \in Sessions, n \in FetchIds :
       /\ fetch[s][n].refine = "done"
       /\ WithinThreshold(fetch[s][n], opts[s].significantChangeThreshold)
       /\ cachedLocation.coords = fetch[s][n].location.coords
       /\ coords[s] = fetch[s][n].location.coords /\ address[s] # NoAddress

\* the cached record has outlived the TTL session s is configured with
Expired(s) == cachedLocation # NoLocation /\ ~WithinTTL(s)

\* C20: a session that starts while the Location Cache holds an expired record
\* shows that record at once (loading=false) and still proceeds to fetch
\* coordination: it asks for the mutex and, once it has the lock, fetches
\* unless the re-check finds a record within TTL; it stops without fetching
\* only if the record is within TTL.
C20_ExpiredRecordShownThenRefetched ==
    [][\A s \in Sessions :
          /\ (Starts(s) /\ Expired(s)) =>
                /\ coords'[s] = cachedLocation.coords
                /\ address'[s] = cachedLocation.address
                /\ ~loading'[s]
                /\ initPc'[s] = "awaitLock"
                /\ granted'[s] \/ \E i \in 1..Len(waiters') : waiters'[i] = s
          /\ (Starts(s) /\ cachedLocation # NoLocation /\ initPc'[s] = "none") => WithinTTL(s)
          /\ (isMountedRef(s) /\ initPc[s] = "awaitLock" /\ initPc'[s] # "awaitLock") =>
                IF WithinTTL(s)
                THEN initPc'[s] = "done" /\ numFetch'[s] = numFetch[s]
                ELSE initPc'[s] = "awaitFetch" /\ numFetch'[s] = numFetch[s] + 1]_vars

\* the load of the stored item fills the empty Location Cache
Reloads ==
    /\ cachedLocation = NoLocation /\ cachedLocation' # NoLocation
    /\ \E s \in Sessions : loadPending[s] /\ ~loadPending'[s]

\* C21: a CachedLocation written to durable storage and reloaded in a fresh
\* process with no in-memory record reproduces the same coordinate, address,
\* timestamp and ttl as the in-memory record it was written from.
C21_RoundTrip == [][Reloads => cachedLocation' = persistedRecord]_vars

\* loadPersistedLocation() of session s settles
LoadCompletes(s) == loadPending[s] /\ ~loadPending'[s] /\ life'[s] # "unborn"

\* C22: the durable-store load populates the in-memory Location Cache only if
\* no record exists when the load completes: a record written by a fetch that
\* finished before the load completed is never overwritten by the persisted one.
C22_LoadNeverOverwrites ==
    [][\A s \in Sessions : LoadCompletes(s) =>
          IF cachedLocation # NoLocation
          THEN cachedLocation' = cachedLocation
          ELSE cachedLocation' = loadPersistedLocation(storedItem[s])]_vars
\* a load that read an older record has completed after a fetch wrote the cache
C22_Witness ==
    /\ lastWrite = "kept"
    /\ cachedLocation.coords = PointA
    /\ \E s \in Sessions : isMountedRef(s) /\ ~loadPending[s] /\ coords[s] = PointA

\* the lookup for a fix of a live fetch of session s comes back without an address
LookupFails(s) ==
    /\ LookupArrives(s)
    /\ Head(microQ).addr = NoAddress
    /\ shouldContinue(s, Head(microQ).n)

\* C23: a failed address lookup never fails the location fetch: when reverse
\* geocoding throws or returns nothing, the session keeps its coordinate with
\* address absent and error absent, and the fetch is reported as successful
\* (its fix is written to the Location Cache, without an address).
C23_LookupFailureIsNotAnError ==
    [][/\ \A s \in Sessions : LookupFails(s) =>
             /\ coords'[s] = Head(microQ).fix.coords
             /\ address'[s] = NoAddress
             /\ error[s] = "" /\ error'[s] = ""
             /\ ~loading'[s]
             /\ cachedLocation'.coords = Head(microQ).fix.coords
             /\ cachedLocation'.address = NoAddress
       /\ \A c \in geoCalls : c \notin geoCalls' =>
             UNCHANGED <<coords, address, loading, error, fetch, isFetchingRef, cachedLocation>>]_vars
\* the lookup for the second fetch of a session threw (nothing was stored for
\* the bucket): the session shows the new coordinate, no address and no error
C23_Witness ==
    \E s \in Sessions, n \in FetchIds :
       /\ n > 1 /\ fetch[s][n].location # NoFix
       /\ coords[s] = fetch[s][n].location.coords
       /\ ~reverseGeocodeCache[createCacheKey(coords[s])].present
       /\ address[s] = NoAddress /\ error[s] = "" /\ ~loading[s]
       /\ cachedLocation.coords = coords[s] /\ cachedLocation.address = NoAddress
       /\ lastWriter[s] = n /\ geoCalls = {} /\ microQ = <<>>

\* session s has finished its start-up (or never had one) and stays mounted
Started(s) ==
    /\ isMountedRef(s) /\ life'[s] = "mounted"
    /\ initPc[s] \in {"none", "done"} /\ initPc'[s] = initPc[s]

\* C24: refresh(forceBypassCache = true) never short-circuits on the cache:
\* when no fetch of the session is in flight it always performs a fresh fetch
\* attempt (permission request, then position queries), also when the
\* Location Cache holds a valid record.  After its start-up nothing but a
\* fetch of the session writes the session's visible state, every fetch that
\* starts issues a permission request, and a granted one the position queries.
C24_RefreshBypassesCache ==
    [][\A s \in Sessions :
          /\ (Started(s) /\ View(s)' # View(s)) => lastWriter'[s] # 0
          /\ (isMountedRef(s) /\ numFetch'[s] # numFetch[s]) =>
                /\ permCalls' = permCalls + 1
                /\ fetch'[s][numFetch'[s]].pc = "perm"
                /\ isFetchingRef'[s] /\ loading'[s] /\ error'[s] = ""
          /\ \A n \in FetchIds :
                (fetch[s][n].pc = "perm" /\ fetch'[s][n].pc = "race") =>
                   /\ positionCalls' = positionCalls + 1
                   /\ fetch'[s][n].lk = "pending" /\ fetch'[s][n].np = "pending"]_vars
\* refresh() started the second fetch of a session, with its permission
\* request, while the Location Cache held the record written by its first
\* fetch (the only one so far), still valid for the session
C24_Witness ==
    \E s \in Sessions :
       /\ isMountedRef(s) /\ initPc[s] \in {"none", "done"}
       /\ numFetch[s] = 2 /\ fetch[s][2].pc \in {"perm", "race"}
       /\ permCalls = 2
       /\ \A r \in Sessions \ {s} : numFetch[r] = 0
       /\ cachedLocation # NoLocation
       /\ cachedLocation.coords = fetch[s][1].location.coords
       /\ isCacheValid(s) /\ WithinTTL(s)

\* session s has a fetch in progress: fetchLocation is running, or the start-up
\* that leads to it is waiting for the mutex or for the polling loop
Fetching(s) == isFetchingRef[s] \/ initPc[s] \in {"awaitLock", "polling"}

\* C25: the exposed loading flag says whether location is currently being
\* fetched: in every reachable state of a mounted session, loading is true
\* only while that session has a fetch in progress (it is false when the
\* session is idle, settled or errored, including a session created with
\* autoFetch disabled that has not yet been refreshed).
C25_LoadingMeansFetching ==
    \A s \in Sessions : (isMountedRef(s) /\ loading[s]) => Fetching(s)

\* C26: waiters on the fetch mutex are granted the lock in arrival order: if
\* session A enqueued before session B and neither is cancelled, A is granted
\* the lock before B.  A session is granted the lock only when every session
\* that queued before it has been granted, and a session that finds waiters
\* queues behind them.
C26_FIFO ==
    /\ [][\A b \in Sessions : (~granted[b] /\ granted'[b]) =>
             IF InQueue(b)
             THEN \A i \in 1..Len(waiters) :
                     waiters[i] = b => \A j \in 1..(i - 1) : granted'[waiters[j]]
             ELSE waiters = <<>>]_vars
    /\ [][\A i \in 1..Len(waiters') :
             \/ \E j \in 1..Len(waiters) :
                   /\ waiters[j] = waiters'[i]
                   /\ \A k \in 1..(i - 1) : \E l \in 1..(j - 1) : waiters[l] = waiters'[k]
             \/ i = Len(waiters') /\ ~InQueue(waiters'[i])]_vars
    /\ [](~isLocked => waiters = <<>>)
\* of two mounted sessions that were waiting together, the one that arrived
\* first has just been granted the lock and the other is still queued
C26_Witness ==
    /\ waiters = <<3>>
    /\ granted[2] /\ ~granted[3]
    /\ \A s \in Sessions : isMountedRef(s)
    /\ \E i \in 1..Len(microQ) : microQ[i].k = "initResume" /\ microQ[i].s = 2

\* C27: a session that acquires the mutex re-checks the Location Cache after
\* the acquisition and again after a polling wait; when the cache holds a
\* valid record by then, the session shows the cached record, issues no
\* provider call and releases the mutex; it goes on to fetch only when the
\* cache holds no valid record.
PassesRecheck(s) ==
    /\ initPc[s] \in {"awaitLock", "polling"}
    /\ initPc'[s] # initPc[s]
    /\ initPc'[s] \in {"done", "awaitFetch"}
    /\ granted[s]
    /\ ~cancelled[s] /\ isMountedRef(s)
C27_RecheckAfterLock ==
    [][\A s \in Sessions : PassesRecheck(s) =>
         IF cachedLocation # NoLocation /\ isCacheValid(s)
         THEN /\ initPc'[s] = "done"
              /\ coords'[s] = cachedLocation.coords
              /\ address'[s] = cachedLocation.address
              /\ ~loading'[s]
              /\ lastWriter'[s] = 0
              /\ numFetch' = numFetch
              /\ permCalls' = permCalls /\ positionCalls' = positionCalls
              /\ geoCalls' = geoCalls
              /\ IF waiters = <<>> THEN ~isLocked' ELSE granted'[Head(waiters)]
         ELSE /\ initPc'[s] = "awaitFetch"
              /\ numFetch'[s] = numFetch[s] + 1]_vars
\* a session that queued for the mutex while the cache was empty was granted
\* the lock after another session's fetch had filled the cache: it shows the
\* cached record and has never fetched
C27_Witness ==
    \E s \in Sessions :
       /\ isMountedRef(s) /\ ~cancelled[s]
       /\ granted[s] /\ releaseMutex[s]
       /\ initPc[s] = "done"
       /\ numFetch[s] = 0
       /\ cachedLocation # NoLocation
       /\ coords[s] = cachedLocation.coords
       /\ lastWriter[s] = 0
       /\ \E o \in Sessions \ {s} : numFetch[o] > 0 /\ fetch[o][1].pc = "done"

\* C28: a starting session that finds another session's fetch in flight waits
\* by polling until that fetch's in-flight flag clears before it decides
\* whether to fetch itself: a session leaves its start-up wait to fetch only
\* when no other session has a fetch in flight.
C28_WaitsForOtherFetch ==
    [][\A s \in Sessions :
          (initPc[s] \in {"awaitLock", "polling"} /\ initPc'[s] = "awaitFetch") =>
              \A o \in Sessions \ {s} : ~isFetchingRef[o]]_vars

\* C29: the pending geocode handle of a bucket is registered when its
\* resolution starts and removed when the resolution settles, on every exit
\* path (success, failure, cancellation): a bucket has a pending entry exactly
\* while a resolution for it is running.
C29_PendingWhileRunning ==
    /\ [](\A k \in Keys : pendingReverseGeocodeRequests[k] # NoCall =>
              \E c \in geoCalls : c.key = k /\ c.id = pendingReverseGeocodeRequests[k])
    /\ [](\A c \in geoCalls : pendingReverseGeocodeRequests[c.key] = c.id)
    /\ [][\A c \in geoCalls : c \notin geoCalls' =>
              pendingReverseGeocodeRequests'[c.key] # c.id]_vars
\* a resolution has settled without a result to store (the lookup threw or
\* its requester was cancelled) and no bucket has a pending entry
C29_Witness ==
    /\ geoCalls = {} /\ microQ = <<>>
    /\ \A k \in Keys : pendingReverseGeocodeRequests[k] = NoCall
    /\ \E s \in Sessions, n \in FetchIds :
          /\ fetch[s][n].pc = "done"
          /\ fetch[s][n].location # NoFix
          /\ ~reverseGeocodeCache[createCacheKey(fetch[s][n].location.coords)].present

\* C30: a geocode resolution requested with a cancellation token that is
\* already cancelled returns null without contacting the geocoder and without
\* adding a pending entry or a cache entry, whatever the Geocode Cache holds
\* for the bucket; and no resolution is ever started for a cancelled token.
C30_AbortedRequestDoesNothing ==
    /\ [][\A s \in Sessions, n \in FetchIds, p \in Points :
             ReverseGeocodeAborted(s, n, p) =>
                /\ geoCalls' = geoCalls
                /\ pendingReverseGeocodeRequests' = pendingReverseGeocodeRequests
                /\ geoWaiters' = geoWaiters
                /\ reverseGeocodeCache' = reverseGeocodeCache
                /\ microQ' = <<Task("geoThen", s, n, "direct", FixAt(p), NoAddress)>>]_vars
    /\ [][\A c \in geoCalls' \ geoCalls : ~fetch'[c.id[1]][c.id[2]].aborted]_vars
\* the function has just been called with an aborted signal for a bucket
\* that has neither a cache entry nor a pending entry: it answers null and
\* the bucket still has neither
C30_Witness ==
    /\ Len(microQ) = 1
    /\ LET t == microQ[1] IN
       /\ t.k = "geoThen" /\ t.kind = "direct" /\ t.addr = NoAddress
       /\ fetch[t.s][t.n].aborted
       /\ pendingReverseGeocodeRequests[createCacheKey(t.fix.coords)] = NoCall
       /\ ~reverseGeocodeCache[createCacheKey(t.fix.coords)].present
       /\ \A c \in geoCalls : c.key # createCacheKey(t.fix.coords)

\* fetch n of session s obtains its fix and asks for the address of its bucket
PrimaryLookup(s, n) ==
    /\ fetch[s][n].pc \in {"race", "fallback"}
    /\ fetch'[s][n].pc = "done"
    /\ fetch'[s][n].location # NoFix

\* C31: a geocode lookup for a bucket whose cache entry is younger than the
\* geocode TTL returns that entry's address at once without contacting the
\* geocoder; an entry whose age has reached the TTL is never returned: the
\* lookup waits for a resolution of the bucket.
C31_FreshEntryOnly ==
    [][\A s \in Sessions, n \in FetchIds : PrimaryLookup(s, n) =>
         LET fix == fetch'[s][n].location
             k == createCacheKey(fix.coords)
             e == reverseGeocodeCache[k]
             answers == {i \in 1..Len(microQ') : microQ'[i].k = "geoThen" /\ microQ'[i].s = s /\ microQ'[i].n = n}
         IN IF e.present /\ now - e.timestamp < REVERSE_GEOCODE_CACHE_TTL
            THEN /\ geoCalls' = geoCalls
                 /\ pendingReverseGeocodeRequests' = pendingReverseGeocodeRequests
                 /\ geoWaiters' = geoWaiters
                 /\ \E i \in answers : microQ'[i] = Task("geoThen", s, n, "primary", fix, e.address)
            ELSE /\ answers = {}
                 /\ pendingReverseGeocodeRequests'[k] # NoCall
                 /\ \E c \in geoCalls' : c.key = k /\ c.id = pendingReverseGeocodeRequests'[k]
                 /\ \E i \in 1..Len(geoWaiters') :
                       /\ geoWaiters'[i].s = s /\ geoWaiters'[i].n = n
                       /\ geoWaiters'[i].req = pendingReverseGeocodeRequests'[k]]_vars
\* the second fetch of a session looked its bucket up when the entry's age
\* was exactly the geocode TTL: the entry is still in the cache and a new
\* resolution of the bucket is running
C31_Witness ==
    \E c \in geoCalls :
       /\ c.id[2] > 1
       /\ reverseGeocodeCache[c.key].present
       /\ reverseGeocodeCache[c.key].address # NoAddress
       /\ now - reverseGeocodeCache[c.key].timestamp = REVERSE_GEOCODE_CACHE_TTL

\* C32: eviction of the geocode cache is armed only by an insert that leaves
\* the cache above the threshold; triggers that arrive while a pass is
\* scheduled coalesce into that one pass; a pass that runs on a cache above
\* the threshold leaves no entry older than the geocode TTL and keeps every
\* other entry, and a pass on a smaller cache removes nothing.
C32_DebouncedEviction ==
    /\ [](cleanupTimers <= 1 /\ (cleanupScheduled <=> cleanupTimers = 1))
    /\ [][cleanupTimers' > cleanupTimers =>
             /\ reverseGeocodeCache' # reverseGeocodeCache
             /\ CacheSize(reverseGeocodeCache') > CACHE_CLEANUP_THRESHOLD]_vars
    /\ [][cleanupTimers' < cleanupTimers =>
             /\ ~cleanupScheduled'
             /\ \A k \in DOMAIN reverseGeocodeCache :
                   LET old == reverseGeocodeCache[k]
                       aged == old.present /\ now - old.timestamp > REVERSE_GEOCODE_CACHE_TTL
                   IN IF CacheSize(reverseGeocodeCache) > CACHE_CLEANUP_THRESHOLD /\ aged
                      THEN ~reverseGeocodeCache'[k].present
                      ELSE reverseGeocodeCache'[k] = old]_vars
\* a pass has run on a cache above the threshold: the entries of the earlier
\* trips are gone, the entry resolved since is kept and no pass is scheduled
C32_Witness ==
    /\ cleanupTimers = 0 /\ ~cleanupScheduled
    /\ \A k \in OldKeys : ~reverseGeocodeCache[k].present
    /\ \E k \in Keys : reverseGeocodeCache[k].present
    /\ now > REVERSE_GEOCODE_CACHE_TTL

\* the refinement query of fetch n of session s is rejected
RefinementFails(s, n) ==
    /\ fetch[s][n].refine = "pending"
    /\ fetch'[s][n].refine = "done"
    /\ fetch'[s][n].refined = NoFix

\* C33: a failure of the refinement query is swallowed: the session keeps the
\* coordinate and address it shows, error stays absent, loading stays false,
\* the Location Cache is not changed, and no address lookup is made for the
\* failed refinement, then or later.
C33_RefinementFailureSwallowed ==
    /\ [][\A s \in Sessions, n \in FetchIds : RefinementFails(s, n) =>
             /\ UNCHANGED <<coords, address, loading, error, lastWriter>>
             /\ UNCHANGED <<cachedLocation, storage, geoCalls, geoWaiters, microQ, reverseGeocodeCache>>
             /\ (isMountedRef(s) /\ lastWriter[s] = n) =>
                    /\ coords[s] = fetch[s][n].location.coords
                    /\ error[s] = "" /\ ~loading[s]]_vars
    /\ [](\A s \in Sessions, n \in FetchIds :
             (fetch[s][n].refine = "done" /\ fetch[s][n].refined = NoFix) =>
                /\ ~RefinedLookup(s, n, microQ, geoWaiters)
                /\ \A c \in geoCalls : c.id # <<s, n, "refined">>)
\* the refinement of a fetch was rejected and the fetch's primary fix and
\* address are published and cached: the session shows them, without an error
C33_Witness ==
    \E s \in Sessions, n \in FetchIds :
       /\ fetch[s][n].refine = "done" /\ fetch[s][n].refined = NoFix
       /\ lastWriter[s] = n
       /\ coords[s] = fetch[s][n].location.coords
       /\ address[s] = AddressOf(coords[s])
       /\ error[s] = "" /\ ~loading[s]
       /\ cachedLocation.coords = coords[s] /\ cachedLocation.address = address[s]
       /\ geoCalls = {} /\ microQ = <<>>

\* the then-callback at the head of the microtask queue makes a write that
\* the Location Cache accepts
AcceptedWrite ==
    /\ microQ # <<>>
    /\ Head(microQ).k = "geoThen"
    /\ shouldContinue(Head(microQ).s, Head(microQ).n)
    /\ ~(cachedLocation # NoLocation /\ now < cachedLocation.timestamp)

\* C34: mirroring an accepted Location Cache write to durable storage never
\* blocks or alters the write and its failure is never surfaced: whether the
\* store is absent, accepts the item or rejects it, the in-memory record and
\* the session's coordinate, address, loading and error after the write are
\* the same; only the stored item differs.
C34_MirroringNeverAltersWrite ==
    [][AcceptedWrite =>
         LET t == Head(microQ)
             record == [coords |-> t.fix.coords, address |-> t.addr,
                        timestamp |-> now, cacheTTL |-> opts[t.s].cacheTTL]
         IN /\ cachedLocation' = record
            /\ coords' = [coords EXCEPT ![t.s] = t.fix.coords]
            /\ address' = [address EXCEPT ![t.s] = t.addr]
            /\ UNCHANGED <<loading, error>>
            /\ storage' = IF hasStorage /\ ~storeRejects THEN JSONstringify(record) ELSE storage]_vars
\* the store rejected the item of the last accepted write: the stored item is
\* still the one of the earlier run, the cache holds the new record and the
\* session shows it without an error
C34_Witness ==
    /\ lastWrite = "accepted"
    /\ hasStorage /\ storeRejects
    /\ cachedLocation.coords = PointA
    /\ persistedRecord \in Persisted /\ storage = JSONstringify(persistedRecord)
    /\ \E s \in Sessions :
          /\ coords[s] = PointA /\ address[s] = cachedLocation.address
          /\ error[s] = "" /\ ~loading[s]

\* a provider call of the cancelled fetch n of session s settles
CancelledSettles(s, n) ==
    /\ fetch[s][n].aborted
    /\ fetch[s][n].pc \in {"perm", "race", "fallback"}
    /\ fetch'[s][n] # fetch[s][n]

\* C35: cancellation is never reported as an error: when a provider call of a
\* cancelled fetch settles, whatever its outcome, the fetch ends and the
\* session's error, coordinate, address and loading stay as they were; a
\* message is only ever published by a fetch that is not cancelled, in a
\* mounted session.
C35_CancellationIsNotAnError ==
    /\ [][\A s \in Sessions, n \in FetchIds : CancelledSettles(s, n) =>
             /\ View(s)' = View(s)
             /\ lastWriter'[s] = lastWriter[s]
             /\ fetch'[s][n].pc = "done" /\ fetch'[s][n].location = NoFix
             /\ UNCHANGED <<cachedLocation, geoCalls, positionCalls>>]_vars
    /\ [][\A s \in Sessions : (error'[s] # error[s] /\ error'[s] # "") =>
             /\ isMountedRef(s)
             /\ lastWriter'[s] # 0
             /\ ~fetch[s][lastWriter'[s]].aborted]_vars
\* the fetch of a session was cancelled by teardown while its permission
\* request was pending and the request has settled since: the session has no
\* error and still shows the loading state it was torn down in
C35_Witness ==
    \E s \in Sessions, n \in FetchIds :
       /\ life[s] = "unmounted"
       /\ fetch[s][n].aborted /\ fetch[s][n].pc = "done"
       /\ fetch[s][n].lk = "idle" /\ fetch[s][n].np = "idle"
       /\ error[s] = "" /\ loading[s] /\ coords[s] = NoCoords

\* session s, created with autoFetch disabled, starts
ManualStart(s) == life[s] = "unborn" /\ life'[s] = "mounted" /\ ~opts[s].autoFetch

\* C36: a session created with autoFetch disabled does nothing on start: it
\* neither reads the Location Cache nor loads the persisted record, does not
\* queue on the mutex and issues no provider call; its coordinate, address
\* and error stay absent until refresh() is called.
C36_ManualSessionStartsIdle ==
    /\ [][\A s \in Sessions : ManualStart(s) =>
             /\ UNCHANGED <<cachedLocation, storedItem, loadPending, hasInitialFetchRef>>
             /\ UNCHANGED <<isLocked, waiters, granted, microQ, initPc>>
             /\ UNCHANGED <<permCalls, positionCalls, geoCalls, numFetch, isFetchingRef>>
             /\ UNCHANGED <<coords, address, error, loading, lastWriter>>]_vars
    /\ [](\A s \in Sessions : (isMountedRef(s) /\ ~opts[s].autoFetch /\ numFetch[s] = 0) =>
             /\ coords[s] = NoCoords /\ address[s] = NoAddress /\ error[s] = ""
             /\ initPc[s] = "none" /\ ~loadPending[s] /\ ~InQueue(s) /\ ~granted[s])
\* a session with autoFetch disabled is mounted while the Location Cache
\* holds a valid record and a persisted record exists: it shows nothing and
\* has not refreshed
C36_Witness ==
    \E s \in Sessions :
       /\ isMountedRef(s) /\ ~opts[s].autoFetch /\ numFetch[s] = 0
       /\ cachedLocation # NoLocation /\ isCacheValid(s)
       /\ hasStorage /\ storage # NoItem
       /\ coords[s] = NoCoords /\ address[s] = NoAddress /\ error[s] = ""

\* C37: each granted acquisition of the mutex is released exactly once, and
\* only while its session holds the lock: a step hands the lock to at most
\* one waiter, and the lock becomes free only when no session is waiting.
C37_ReleasedExactlyOnce ==
    [][/\ Len(waiters') >= Len(waiters) - 1
       /\ (isLocked /\ ~isLocked') => waiters = <<>>]_vars

\* the refined fix of fetch n of session s, significantly different from the
\* primary one, is the coordinate of the session and of the Location Cache
RefinedApplied(s, n) ==
    /\ fetch[s][n].refine = "done"
    /\ fetch[s][n].refined # NoFix
    /\ hasSignificantChange(fetch[s][n].location.coords, fetch[s][n].refined.coords,
                            opts[s].significantChangeThreshold)
    /\ coords[s] = fetch[s][n].refined.coords
    /\ cachedLocation.coords = fetch[s][n].refined.coords

\* C38: within one fetch with refinement, once the significantly different
\* refined fix has been applied to the session and the Location Cache, the
\* late completion of the fetch's primary address lookup does not put the
\* primary coordinate back, whatever the settle order of the two lookups.
C38_RefinedFixStays ==
    [][\A s \in Sessions, n \in FetchIds :
          (RefinedApplied(s, n) /\ lastWriter[s] = n /\ numFetch[s] = n)
             => /\ coords'[s] # fetch[s][n].location.coords
                /\ cachedLocation'.coords # fetch[s][n].location.coords]_vars

\* C39: in every reachable state of a session a non-absent error implies that
\* coordinate and address are absent and loading is false: no late address
\* lookup, refinement or cache application leaves a coordinate visible
\* together with an error.
C39_ErrorMeansNoLocation ==
    \A s \in Sessions :
        error[s] # "" => coords[s] = NoCoords /\ address[s] = NoAddress /\ ~loading[s]
\* a session whose first fetch obtained a fix shows the error of a later fetch
\* of its own while the then-callback of the earlier fix's address lookup,
\* settled with an address, is due to run
C39_Witness ==
    \E s \in Sessions, i \in 1..Len(microQ) :
        /\ error[s] # ""
        /\ numFetch[s] > 1
        /\ fetch[s][1].location.coords # NoCoords
        /\ microQ[i].k = "geoThen" /\ microQ[i].s = s /\ microQ[i].n = 1
        /\ microQ[i].addr # NoAddress

\* C40: in every reachable state of a session a non-absent address is the
\* address resolved for the coordinate currently shown (for its 4-decimal
\* bucket): after a refresh publishes a new coordinate, the address of the
\* previous fix is not shown next to it.
C40_AddressMatchesCoords ==
    \A s \in Sessions :
        address[s] # NoAddress =>
            /\ coords[s] # NoCoords
            /\ \E p \in Points \cup RefinedPoints :
                   /\ createCacheKey(p) = createCacheKey(coords[s])
                   /\ address[s] = AddressOf(p)

====
